---- MODULE Spec2Model ----
(***************************************************************************)
(* Model of the competitor monitor: the bounded breadth-first crawler of   *)
(* crawler.py and the snapshot comparison of change_detector.py.           *)
(*                                                                         *)
(* A URL is a record [host, path, slash, query, frag]: host "" marks a     *)
(* relative href, slash is a trailing "/", query and frag are "" when the  *)
(* URL has none.  Paths are atoms.                                         *)
(*                                                                         *)
(* Spec        one crawl_site invocation, an action per loop iteration     *)
(* SpecFair    the same, the loop running on                               *)
(* SpecPages   compare_pages applied to two page lists                     *)
(* SpecSelf    compare_pages, compare_pricing and detect_all_changes       *)
(*             applied to a crawl file and itself                          *)
(* SpecTexts   calculate_text_similarity and extract_key_changes applied   *)
(*             to two texts                                                *)
(* SpecPricing compare_pricing applied to two pricing pages                *)
(* SpecDetect  detect_all_changes applied to two crawl files               *)
(* SpecVisual  compare_screenshots applied to two screenshot files         *)
(* SpecRun     the crawl step of run_full_monitor: crawl_all_competitors,  *)
(*             then save_crawl_data                                        *)
(* SpecFind    find_pricing_page applied to a list of pages                *)
(* SpecSave    runs of run_full_monitor side by side: save_crawl_data,     *)
(*             then get_latest_crawls                                      *)
(* SpecShots   take_competitor_screenshots in a screenshot directory       *)
(* SpecMain    a run of the program from main on, under any flags          *)
(***************************************************************************)
EXTENDS Integers, Sequences, FiniteSets, TLC

VARIABLES
    pc,            \* crawl_site: "idle" (not called), "loop", "done" (returned)
    homepage,      \* crawl_site's homepage argument
    max_pages,     \* crawl_site's max_pages after line 123
    max_depth,     \* crawl_site's max_depth after line 124
    depth_arg,     \* crawl_site's max_depth argument as passed: None (not
                   \* given) or [value |-> n]
    queue,         \* crawl_site's queue: sequence of <<url, depth>>
    visited_urls,  \* WebCrawler.visited_urls
    pages,         \* crawl_site's pages
    fetchLog,      \* history: the calls of fetch_page, in order, each with
                   \* whether the page linked to another host (foreign) and
                   \* back to the start URL (cycle)
    enqLog,        \* history: the queue.append calls of line 149
    site,          \* the anchors the pages of the site under crawl may carry
    rpc,           \* run_full_monitor: "idle", "crawl" (in crawl_all_competitors),
                   \* "crawled" (it returned), "saved", "failed" (it raised)
    competitors,   \* config.COMPETITORS
    idx,           \* crawl_all_competitors: the competitor the for loop is at
    results,       \* crawl_all_competitors' results
    crawl_files,   \* the crawl files of DATA_DIR, in the order written
    dpc,           \* comparison: "idle", "input" (arguments chosen), "compared"
    old_pages,     \* compare_pages' old_pages argument
    new_pages,     \* compare_pages' new_pages argument
    changes,       \* what compare_pages returned
    snapshot,      \* a loaded crawl file: competitor name -> its record
    self_changes,  \* the snapshot compared with itself: what compare_pages,
                   \* compare_pricing and detect_all_changes returned
    text_one,      \* the first text argument (text1, old_text)
    text_two,      \* the second text argument (text2, new_text)
    text_result,   \* what calculate_text_similarity or extract_key_changes returned
    old_pricing_page,  \* compare_pricing's old_pricing argument
    new_pricing_page,  \* compare_pricing's new_pricing argument
    pricing_change,    \* what compare_pricing returned
    old_file,      \* detect_all_changes' old_data argument
    new_file,      \* detect_all_changes' new_data argument
    all_changes,   \* what detect_all_changes returned
    screens,       \* compare_screenshots' world: whether the image libraries
                   \* loaded, whether each file decodes, the hash distances
    comparison,    \* what compare_screenshots returned
    crawled,       \* find_pricing_page's pages argument
    pricing_found, \* what find_pricing_page returned
    now,           \* the wall clock that datetime.now() reads, in seconds
    data_dir,      \* the crawl files of DATA_DIR: file name -> content
    run,           \* the runs of run_full_monitor under way: of each its
                   \* position, its crawl_file and the files step 2 compared
    written,       \* history: the files written, in order: name and writer
    screenshots_dir,  \* the files of SCREENSHOTS_DIR: file name -> image
    earlier_shots,    \* history: SCREENSHOTS_DIR when take_competitor_screenshots
                      \* was called
    visual_results,   \* what take_competitor_screenshots returned
    args,          \* main: the command line flags as argparse parsed them
    mpc,           \* main: "idle" (not started), "start", run_full_monitor's
                   \* "step2" .. "step5", "done" (returned), "exit1" (the
                   \* except clause ran)
    crawl_results, \* what crawl_all_competitors returned to this run
    earlier_results,  \* history: what crawl_all_competitors returned to the
                      \* run that left the file DATA_DIR holds at the start
    previous_scan, \* the media scan DATA_DIR holds at the start, None without
    found,         \* run_full_monitor's keyword_alerts, crawl_files, changes
                   \* and media_mentions
    slack,         \* the messages handed to slack_notifier, in order
    exit_status    \* the exit status of the process

crawlVars == <<pc, homepage, max_pages, max_depth, depth_arg, queue, visited_urls,
               pages, fetchLog, enqLog, site>>

runVars == <<rpc, competitors, idx, results, crawl_files>>

pagesVars == <<old_pages, new_pages, changes>>

selfVars == <<snapshot, self_changes>>

textVars == <<text_one, text_two, text_result>>

pricingVars == <<old_pricing_page, new_pricing_page, pricing_change>>

dataVars == <<old_file, new_file, all_changes>>

visualVars == <<screens, comparison>>

findVars == <<crawled, pricing_found>>

saveVars == <<now, data_dir, run, written>>

shotVars == <<screenshots_dir, earlier_shots, visual_results>>

mainVars == <<args, mpc, crawl_results, earlier_results, previous_scan, found, slack,
              exit_status>>

moreVars == <<findVars, saveVars, shotVars, mainVars>>

detectVars == <<dpc, pagesVars, selfVars, textVars, pricingVars, dataVars, visualVars,
                moreVars>>

vars == <<crawlVars, runVars, detectVars>>

----------------------------------------------------------------------------
(* Bounds of the model *)

\* the largest max_pages argument tried (0 stands for None / not given)
MaxPagesArg == 2
\* the largest max_depth argument tried (0 stands for None / not given)
MaxDepthArg == 2
\* the most anchors on one fetched page
MaxLinks == 2
\* the most pages of one competitor in a crawl file
MaxSnapPages == 2
\* the words of the longest text given to extract_key_changes
ManyWordsCount == 21
\* the most pages given to find_pricing_page
MaxFindPages == 3
\* the runs of the program under way at a time
MaxRuns == 2
\* the seconds the wall clock runs through
MaxClock == 3

\* the number of characters of a page's text that save_crawl_data stores: the
\* 5000 of crawler.py line 282 on the scale of the texts of the model
StoredChars == 20

(* Program constants *)
MAX_PAGES_PER_SITE == 50
MAX_CRAWL_DEPTH == 2
CONTENT_CHANGE_THRESHOLD == 5
VISUAL_CHANGE_THRESHOLD == 10
\* the bits of an 8x8 image hash, the 64 of line 106
HashBits == 64

----------------------------------------------------------------------------
(* URLs *)

Url(h, p, s, q, f) == [host |-> h, path |-> p, slash |-> s, query |-> q, frag |-> f]

\* The hrefs a fetched page may carry.
Hrefs ==
    { Url("", "/p1", FALSE, "", ""),          \* /p1
      Url("a.com", "/p1", TRUE, "", ""),      \* https://a.com/p1/
      Url("", "/p2", FALSE, "", ""),          \* /p2
      Url("", "/p2", FALSE, "x=1", ""),       \* /p2?x=1
      Url("", "", TRUE, "", "top"),           \* /#top
      Url("b.com", "/p1", FALSE, "", ""),     \* https://b.com/p1
      Url("", "/login", FALSE, "", "") }      \* /login

\* The homepage arguments tried.
Homepages ==
    { Url("a.com", "", TRUE, "", ""),         \* https://a.com/
      Url("a.com", "/p1", TRUE, "", "") }     \* https://a.com/p1/

\* urlparse(url).netloc
netloc(url) == url.host

\* urljoin(base_url, href): an absolute href stands, a relative one takes the
\* base's host.
urljoin(base_url, href) ==
    IF href.host # "" THEN href ELSE [href EXCEPT !.host = base_url.host]

\* scheme://netloc/path, the query and the fragment dropped, then rstrip("/")
normalize_url(url) == [url EXCEPT !.query = "", !.frag = "", !.slash = FALSE]

is_same_domain_Any(base_url, target_url) == TRUE

is_same_domain(base_url, target_url) == netloc(base_url) = netloc(target_url)

\* any(re.search(p, normalized, re.I) for p in skip_patterns), on the
\* normalized URL
matches_skip_patterns(normalized) ==
    \/ normalized.path \in {"/login", "/signup", "/signin", "/logout", "/cart",
                            "/checkout", "/doc.pdf", "/a.zip", "/a.exe"}
    \/ normalized.query # ""
    \/ normalized.frag # ""

\* The hrefs of a page whose normalized form extract_links keeps.
kept_hrefs(hrefs, base_url) ==
    { h \in hrefs :
        LET normalized == normalize_url(urljoin(base_url, h))
        IN  /\ is_same_domain(base_url, normalized)
            /\ ~matches_skip_patterns(normalized) }

\* list(set(links)): the normalized links, as a set
extract_links(hrefs, base_url) ==
    { normalize_url(urljoin(base_url, h)) : h \in kept_hrefs(hrefs, base_url) }

----------------------------------------------------------------------------
(* fetch_page *)

None == [none |-> TRUE]

fetch_page_EmptyOnError(url, ok, hrefs) ==
    IF ok THEN [url |-> url, links |-> extract_links(hrefs, url)]
    ELSE [url |-> url, links |-> {}]

\* ok: the request returned a 2xx response; hrefs: the anchors of its HTML.
fetch_page(url, ok, hrefs) ==
    IF ok THEN [url |-> url, links |-> extract_links(hrefs, url)]
    ELSE None

----------------------------------------------------------------------------
(* crawl_site *)

\* x or default
OrDefault(x, default) == IF x = 0 THEN default ELSE x

\* An argument that was passed, and the number of an argument: None, like 0,
\* is falsy.
Arg(n) == [value |-> n]

ArgValue(arg) == IF arg = None THEN 0 ELSE arg.value

within_depth_Inclusive(depth, bound) == depth <= bound

\* if depth < max_depth
within_depth(depth, bound) == depth < bound

LoopCond_OffByOne(q, p, cap) == q # <<>> /\ Len(p) <= cap

\* while queue and len(pages) < max_pages
LoopCond(q, p, cap) == q # <<>> /\ Len(p) < cap

Dequeue_Peek(q) == q

\* queue.pop(0): what is left of the queue
Dequeue(q) == Tail(q)

AlreadyVisited_Never(url, visited) == FALSE

\* if url in self.visited_urls
AlreadyVisited(url, visited) == url \in visited

\* The orders in which a set can be iterated.
Orders(S) ==
    { s \in [1..Cardinality(S) -> S] : \A i, j \in 1..Cardinality(S) : s[i] = s[j] => i = j }

\* The arguments and the result of each comparison, before it is called.
PagesIdle == old_pages = <<>> /\ new_pages = <<>> /\ changes = <<>>

SelfIdle == snapshot = <<>> /\ self_changes = <<>>

TextIdle == text_one = <<>> /\ text_two = <<>> /\ text_result = <<>>

PricingIdle == old_pricing_page = <<>> /\ new_pricing_page = <<>> /\ pricing_change = <<>>

DataIdle == old_file = <<>> /\ new_file = <<>> /\ all_changes = <<>>

VisualIdle == screens = <<>> /\ comparison = <<>>

FindIdle == crawled = <<>> /\ pricing_found = <<>>

SaveIdle == now = 0 /\ data_dir = <<>> /\ run = <<>> /\ written = <<>>

ShotIdle == screenshots_dir = <<>> /\ earlier_shots = <<>> /\ visual_results = <<>>

MainIdle ==
    /\ args = <<>>
    /\ mpc = "idle"
    /\ crawl_results = <<>>
    /\ earlier_results = <<>>
    /\ previous_scan = <<>>
    /\ found = <<>>
    /\ slack = <<>>
    /\ exit_status = 0

\* Every comparison but the named one is idle.
IdleBut(group) ==
    /\ IF group = "pages" THEN TRUE ELSE PagesIdle
    /\ IF group = "self" THEN TRUE ELSE SelfIdle
    /\ IF group = "text" THEN TRUE ELSE TextIdle
    /\ IF group = "pricing" THEN TRUE ELSE PricingIdle
    /\ IF group = "data" THEN TRUE ELSE DataIdle
    /\ IF group = "visual" THEN TRUE ELSE VisualIdle
    /\ IF group = "find" THEN TRUE ELSE FindIdle
    /\ IF group \in {"save", "main"} THEN TRUE ELSE SaveIdle
    /\ IF group \in {"shots", "main"} THEN TRUE ELSE ShotIdle
    /\ IF group = "main" THEN TRUE ELSE MainIdle

\* No comparison is under way.
DetectIdle == dpc = "idle" /\ IdleBut("none")

\* run_full_monitor has not been called.
RunIdle ==
    /\ rpc = "idle"
    /\ competitors = <<>>
    /\ idx = 0
    /\ results = <<>>
    /\ crawl_files = <<>>

CrawlIdle ==
    /\ pc = "idle"
    /\ homepage = None
    /\ max_pages = 0
    /\ max_depth = 0
    /\ depth_arg = None
    /\ queue = <<>>
    /\ visited_urls = {}
    /\ pages = <<>>
    /\ fetchLog = <<>>
    /\ enqLog = {}
    /\ site = {}

Init == CrawlIdle /\ RunIdle /\ DetectIdle

\* lines 121-130
CrawlSite ==
    /\ pc = "idle"
    /\ \E hp \in Homepages, mp \in 0..MaxPagesArg, md \in {None} \cup { Arg(n) : n \in 0..MaxDepthArg } :
        /\ homepage' = hp
        /\ max_pages' = OrDefault(mp, MAX_PAGES_PER_SITE)
        /\ depth_arg' = md
        /\ max_depth' = OrDefault(ArgValue(md), MAX_CRAWL_DEPTH)
        /\ queue' = << <<normalize_url(hp), 0>> >>
    /\ visited_urls' = {}
    /\ pages' = <<>>
    /\ site' = Hrefs
    /\ pc' = "loop"
    /\ UNCHANGED <<fetchLog, enqLog, runVars, detectVars>>

\* lines 132-136: an already visited URL is popped and dropped
LoopSkip ==
    /\ pc = "loop"
    /\ LoopCond(queue, pages, max_pages)
    /\ AlreadyVisited(Head(queue)[1], visited_urls)
    /\ queue' = Dequeue(queue)
    /\ UNCHANGED <<pc, homepage, max_pages, max_depth, depth_arg, visited_urls, pages,
                   fetchLog, enqLog, site, runVars, detectVars>>

\* lines 132-152: one iteration that fetches
LoopFetch ==
    /\ pc = "loop"
    /\ LoopCond(queue, pages, max_pages)
    /\ LET url == Head(queue)[1]
           depth == Head(queue)[2]
           queue_start == normalize_url(homepage)
       IN  /\ ~AlreadyVisited(url, visited_urls)
           /\ visited_urls' = visited_urls \cup {url}
           /\ \E ok \in BOOLEAN, hrefs \in SUBSET site :
                /\ Cardinality(hrefs) <= MaxLinks
                /\ ~ok => hrefs = {}
                /\ LET page_data == fetch_page(url, ok, hrefs)
                   IN  /\ fetchLog' = Append(fetchLog,
                                [url |-> url, depth |-> depth, ok |-> ok,
                                 foreign |-> \E h \in hrefs :
                                    h.host \notin {"", netloc(url)},
                                 cycle |-> \E h \in hrefs :
                                    normalize_url(urljoin(url, h)) = queue_start])
                       /\ IF page_data # None
                          THEN /\ pages' = Append(pages, page_data)
                               /\ IF within_depth(depth, max_depth)
                                  THEN LET new == { l \in page_data.links :
                                                       l \notin visited_urls' }
                                       IN  /\ \E order \in Orders(new) :
                                                queue' = Dequeue(queue) \o
                                                    [i \in 1..Len(order) |->
                                                        <<order[i], depth + 1>>]
                                           /\ enqLog' = enqLog \cup
                                                { [url |-> l, depth |-> depth + 1,
                                                   plain |-> \E h \in kept_hrefs(hrefs, url) :
                                                        /\ normalize_url(urljoin(url, h)) = l
                                                        /\ h.query = ""
                                                        /\ h.frag = ""] : l \in new }
                                  ELSE /\ queue' = Dequeue(queue)
                                       /\ enqLog' = enqLog
                          ELSE /\ pages' = pages
                               /\ queue' = Dequeue(queue)
                               /\ enqLog' = enqLog
    /\ UNCHANGED <<pc, homepage, max_pages, max_depth, depth_arg, site, runVars,
                   detectVars>>

\* line 154
Return ==
    /\ pc = "loop"
    /\ ~LoopCond(queue, pages, max_pages)
    /\ pc' = "done"
    /\ UNCHANGED <<homepage, max_pages, max_depth, depth_arg, queue, visited_urls,
                   pages, fetchLog, enqLog, site, runVars, detectVars>>

Next == CrawlSite \/ LoopSkip \/ LoopFetch \/ Return

Spec == Init /\ [][Next]_vars

\* The loop of crawl_site runs on: nothing outside it can hold it up.
SpecFair == Spec /\ WF_vars(Next)

----------------------------------------------------------------------------
(* Claims about crawl_site *)

FetchIdx == 1..Len(fetchLog)

\* C1: during one crawl_site invocation no normalized URL (host and path,
\* without query, fragment and trailing slash) is passed to fetch_page more
\* than once.
C1_FetchedAtMostOnce ==
    \A i, j \in FetchIdx :
        (/\ fetchLog[i].url.host = fetchLog[j].url.host
         /\ fetchLog[i].url.path = fetchLog[j].url.path) => i = j

\* A crawl has returned in which some URL was enqueued twice (at two depths).
C1_Witness ==
    /\ pc = "done"
    /\ \E e1, e2 \in enqLog : e1.url = e2.url /\ e1.depth # e2.depth

\* C2: crawl_site eventually returns, whatever the link graph and the fetch
\* failures: every iteration either adds a page (at most max_pages times) or
\* shortens the queue, and the crawl reaches "done".
C2_Terminates ==
    /\ [][pc = "loop" /\ pc' = "loop" =>
            \/ Len(pages') = Len(pages) + 1 /\ Len(pages') <= max_pages
            \/ pages' = pages /\ Len(queue') < Len(queue)]_vars
    /\ <>(pc = "done")

\* A crawl has returned from a site with a cycle (a page reached from the
\* start URL links back to it) on which some fetch failed.
C2_Witness ==
    /\ pc = "done"
    /\ \E i \in FetchIdx : fetchLog[i].depth >= 1 /\ fetchLog[i].cycle
    /\ \E i \in FetchIdx : ~fetchLog[i].ok

\* C3 as claimed: the fetches of one crawl, failed ones included, never
\* number more than max_pages.
C3_FetchesWithinCap == Len(fetchLog) <= max_pages

\* C3 amended: the successful fetches of one crawl never number more than
\* max_pages (failed fetches do not count against the cap).
C3_SuccessfulFetchesWithinCap ==
    pc # "idle" => Cardinality({ i \in FetchIdx : fetchLog[i].ok }) <= max_pages

\* A crawl has returned having fetched more often than max_pages.
C3_Witness == pc = "done" /\ Len(fetchLog) > max_pages

\* C4: pages never holds more than max_pages pages; with max_pages = 1 and a
\* homepage that fetches successfully, the result holds exactly one page.
C4_PageCap ==
    pc # "idle" =>
        /\ Len(pages) <= max_pages
        /\ (pc = "done" /\ max_pages = 1 /\ fetchLog # <<>> /\ fetchLog[1].ok)
                => Len(pages) = 1

\* A crawl with max_pages = 1 has returned one page, two links left unvisited.
C4_Witness ==
    /\ pc = "done"
    /\ max_pages = 1
    /\ Len(pages) = 1
    /\ Len(queue) >= 2

\* C5: a URL whose fetch failed is in no returned page, and the crawl goes on
\* until the queue is empty or the page cap is reached.
C5_FailedFetchOmitted ==
    /\ \A i \in FetchIdx : ~fetchLog[i].ok =>
            \A k \in 1..Len(pages) : pages[k].url # fetchLog[i].url
    /\ pc = "done" => (queue = <<>> \/ Len(pages) >= max_pages)

\* A crawl has returned in which a fetch succeeded after another had failed.
C5_Witness ==
    /\ pc = "done"
    /\ \E i, j \in FetchIdx : i < j /\ ~fetchLog[i].ok /\ fetchLog[j].ok

\* C6: every URL enqueued or fetched by crawl_site has the host of the
\* homepage the crawl was started with.
C6_SameHostAsHomepage ==
    pc # "idle" =>
        /\ \A k \in 1..Len(queue) : queue[k][1].host = homepage.host
        /\ \A e \in enqLog : e.url.host = homepage.host
        /\ \A i \in FetchIdx : fetchLog[i].url.host = homepage.host

\* A crawl has returned in which a linked page, fetched below the depth
\* bound, carried a link to another host.
C6_Witness ==
    /\ pc = "done"
    /\ \E i \in FetchIdx :
        /\ fetchLog[i].ok
        /\ fetchLog[i].depth >= 1
        /\ fetchLog[i].depth < max_depth
        /\ fetchLog[i].foreign

\* C7 as claimed: a link whose href carries a query string or a fragment is
\* never enqueued, in no form: every enqueued URL comes from some href of the
\* page that has neither.
C7_QueryOrFragmentNeverEnqueued == \A e \in enqLog : e.plain

\* C8 as claimed: with the depth setting 1 only the start URL (depth 0) is
\* fetched, with 2 only the start URL and the pages linked from it (depth 1).
C8_DepthSetting ==
    max_depth \in {1, 2} => \A i \in FetchIdx : fetchLog[i].depth < max_depth

----------------------------------------------------------------------------
(* The crawl step of run_full_monitor: crawl_all_competitors, then         *)
(* save_crawl_data.  An entry of results holds of each page its URL: the   *)
(* text of a page, what the code derives from it (content_hash,            *)
(* keyword_alerts), its links and the time stamps play no part in the      *)
(* step and are left out.                                                  *)

Competitor(name, hp, news_url, pricing_url) ==
    [name |-> name, homepage |-> hp, news_url |-> news_url, pricing_url |-> pricing_url]

\* The COMPETITORS lists tried: a first competitor whose homepage is written
\* with or without a trailing slash, with or without a news_url and a
\* pricing_url, and a second one with a homepage alone.
Configs ==
    { << Competitor("BETER", Url("a.com", "", s, "", ""), n, p),
         Competitor("GRID", Url("b.com", "", FALSE, "", ""), None, None) >> :
        s \in BOOLEAN,
        n \in {None, Url("a.com", "/p1", TRUE, "", "")},
        p \in {None, Url("a.com", "/p2", FALSE, "", "")} }

\* The anchors the pages of a competitor's site may carry: /#top, /p1 and
\* /p2 on the first competitor's, /p1 on the other's.
SiteAnchors(hp) ==
    { h \in Hrefs : /\ h.host = ""
                    /\ h.query = ""
                    /\ h.path \in (IF hp.host = "a.com" THEN {"", "/p1", "/p2"}
                                   ELSE {"/p1"}) }

crawl_complete_AfterFirst(i, config) == i > 1

\* the for loop of line 204 has run through COMPETITORS
crawl_complete(i, config) == i > Len(config)

\* homepage not in [p["url"] for p in pages]
not_in_pages(url, page_list) == \A i \in 1..Len(page_list) : page_list[i].url # url

\* any(keyword in url_lower for keyword in pricing_keywords)
has_pricing_keyword(url) ==
    url.path \in {"/pricing", "/Pricing", "/plans", "/price", "/cost", "/subscription"}

\* What find_pricing_page can return for pages whose texts are left open:
\* the first page with a pricing keyword in its URL; without one, the first
\* page whose text has a pricing phrase, which may be any page (none before
\* it having one), or None.
find_pricing_page_outcomes(page_list) ==
    LET by_keyword == { i \in 1..Len(page_list) : has_pricing_keyword(page_list[i].url) }
    IN  IF by_keyword # {}
        THEN { page_list[CHOOSE i \in by_keyword : \A k \in by_keyword : i <= k] }
        ELSE {None} \cup { page_list[i] : i \in 1..Len(page_list) }

\* results with results[name] = record
WithEntry(dict, name, record) ==
    [n \in DOMAIN dict \cup {name} |-> IF n = name THEN record ELSE dict[n]]

\* A fetched page as an entry of results holds it.
stored(page_data) == IF page_data = None THEN None ELSE [url |-> page_data.url]

\* save_data of save_crawl_data: every competitor of results, its pages in
\* the order of results
save_data(dict) ==
    [n \in DOMAIN dict |->
        [homepage |-> dict[n].homepage,
         news_url |-> dict[n].news_url,
         pages |-> [i \in 1..Len(dict[n].pages) |-> [url |-> dict[n].pages[i].url]],
         pricing_page |-> IF dict[n].pricing_page # None
                          THEN [url |-> dict[n].pricing_page.url]
                          ELSE None]]

RunInit ==
    /\ CrawlIdle
    /\ DetectIdle
    /\ rpc = "idle"
    /\ competitors \in Configs
    /\ idx = 0
    /\ results = <<>>
    /\ crawl_files = <<>>

\* monitor.py line 28, crawler.py lines 201-202
RunStart ==
    /\ rpc = "idle"
    /\ rpc' = "crawl"
    /\ idx' = 1
    /\ results' = <<>>
    /\ UNCHANGED <<crawlVars, competitors, crawl_files, detectVars>>

\* crawler.py lines 204-216: the next competitor, crawl_site called on its
\* start URL (lines 121-130)
CrawlCompetitor ==
    /\ rpc = "crawl"
    /\ pc = "idle"
    /\ ~crawl_complete(idx, competitors)
    /\ LET competitor == competitors[idx]
           start_url == IF competitor.news_url # None THEN competitor.news_url
                        ELSE competitor.homepage
       IN  /\ homepage' = start_url
           /\ queue' = << <<normalize_url(start_url), 0>> >>
    /\ max_pages' = OrDefault(0, MAX_PAGES_PER_SITE)
    /\ depth_arg' = None
    /\ max_depth' = OrDefault(ArgValue(None), MAX_CRAWL_DEPTH)
    /\ visited_urls' = {}
    /\ pages' = <<>>
    /\ fetchLog' = <<>>
    /\ enqLog' = {}
    /\ site' = SiteAnchors(competitors[idx].homepage)
    /\ pc' = "loop"
    /\ UNCHANGED <<runVars, detectVars>>

\* crawler.py lines 218-248: crawl_site has returned; the homepage is fetched
\* if the crawl started from the news page and did not bring it, the pricing
\* page is fetched or looked for, the competitor's entry is stored
AddCompetitor ==
    /\ rpc = "crawl"
    /\ pc = "done"
    /\ LET competitor == competitors[idx]
       IN  \E ok \in BOOLEAN, hrefs \in SUBSET site, ok2 \in BOOLEAN :
            LET fetch_homepage == /\ competitor.news_url # None
                                  /\ not_in_pages(competitor.homepage, pages)
                homepage_data == fetch_page(competitor.homepage, ok, hrefs)
                all_pages == IF fetch_homepage /\ homepage_data # None
                             THEN <<homepage_data>> \o pages
                             ELSE pages
            IN  /\ Cardinality(hrefs) <= MaxLinks
                /\ (~fetch_homepage \/ ~ok) => hrefs = {}
                /\ ~fetch_homepage => ok
                /\ competitor.pricing_url = None => ok2
                /\ \E pricing_page \in
                        IF competitor.pricing_url # None
                        THEN {fetch_page(competitor.pricing_url, ok2, {})}
                        ELSE find_pricing_page_outcomes(all_pages) :
                     results' = WithEntry(results, competitor.name,
                                    [homepage |-> competitor.homepage,
                                     news_url |-> competitor.news_url,
                                     pages |-> [i \in 1..Len(all_pages) |->
                                                    stored(all_pages[i])],
                                     pricing_page |-> stored(pricing_page)])
    /\ idx' = idx + 1
    /\ pc' = "idle"
    /\ queue' = <<>>
    /\ pages' = <<>>
    /\ fetchLog' = <<>>
    /\ enqLog' = {}
    /\ UNCHANGED <<homepage, max_pages, max_depth, depth_arg, visited_urls, site, rpc,
                   competitors, crawl_files, detectVars>>

\* crawler.py line 255: every competitor is crawled, crawl_all_competitors
\* returns
CrawlAllReturn ==
    /\ rpc = "crawl"
    /\ pc = "idle"
    /\ crawl_complete(idx, competitors)
    /\ rpc' = "crawled"
    /\ UNCHANGED <<crawlVars, competitors, idx, results, crawl_files, detectVars>>

\* monitor.py line 29: save_crawl_data writes the crawl file
SaveCrawlData ==
    /\ rpc = "crawled"
    /\ crawl_files' = Append(crawl_files, save_data(results))
    /\ rpc' = "saved"
    /\ UNCHANGED <<crawlVars, competitors, idx, results, detectVars>>

\* An exception leaves crawl_all_competitors (fetch_page catches none but
\* requests.RequestException), or the process is interrupted: crawl_site's
\* frame is gone, run_full_monitor goes to its except clause (line 126) and
\* exits.  pages keeps what the crawl under way had collected.
CrawlFails ==
    /\ rpc = "crawl"
    /\ rpc' = "failed"
    /\ pc' = "idle"
    /\ UNCHANGED <<homepage, max_pages, max_depth, depth_arg, queue, visited_urls, pages,
                   fetchLog, enqLog, site, competitors, idx, results, crawl_files,
                   detectVars>>

RunNext ==
    \/ RunStart
    \/ CrawlCompetitor
    \/ LoopSkip
    \/ LoopFetch
    \/ Return
    \/ AddCompetitor
    \/ CrawlAllReturn
    \/ SaveCrawlData
    \/ CrawlFails

SpecRun == RunInit /\ [][RunNext]_vars

----------------------------------------------------------------------------
(* change_detector.py: texts.  A text is a sequence of one-character       *)
(* strings.                                                                *)

Digits == {"0", "1", "2", "3", "4", "5", "6", "7", "8", "9"}

UpperCase == <<"A", "B", "C", "D", "E", "F", "G", "H", "I", "J", "K", "L", "M",
               "N", "O", "P", "Q", "R", "S", "T", "U", "V", "W", "X", "Y", "Z">>

LowerCase == <<"a", "b", "c", "d", "e", "f", "g", "h", "i", "j", "k", "l", "m",
               "n", "o", "p", "q", "r", "s", "t", "u", "v", "w", "x", "y", "z">>

\* str.lower(), one character
LowerChar(c) ==
    IF \E i \in DOMAIN UpperCase : UpperCase[i] = c
    THEN LowerCase[CHOOSE i \in DOMAIN UpperCase : UpperCase[i] = c]
    ELSE c

\* str.lower()
Lower(text) == [i \in 1..Len(text) |-> LowerChar(text[i])]

\* The number of characters of text from position i on that lie in S, up to
\* the first that does not.
RunLen(text, i, S) ==
    LET ks == { k \in 0..(Len(text) + 1 - i) : \A d \in 0..(k - 1) : text[i + d] \in S }
    IN  CHOOSE k \in ks : \A k2 \in ks : k2 <= k

\* set(text.split()): the maximal runs of non-blank characters
Words(text) ==
    LET starts == { i \in 1..Len(text) :
                        text[i] # " " /\ (i = 1 \/ text[i - 1] = " ") }
        end(i) == CHOOSE j \in i..Len(text) :
                        /\ \A k \in i..j : text[k] # " "
                        /\ j = Len(text) \/ text[j + 1] = " "
    IN  { SubSeq(text, i, end(i)) : i \in starts }

\* The length of the longest run a[i..] = b[j..] below ahi and bhi.
CommonRun(a, b, i, ahi, j, bhi) ==
    LET most == IF ahi - i < bhi - j THEN ahi - i ELSE bhi - j
    IN  CHOOSE k \in 0..most :
            /\ \A d \in 0..(k - 1) : a[i + d] = b[j + d]
            /\ k = most \/ a[i + k] # b[j + k]

\* The block SequenceMatcher.find_longest_match returns for a[alo..ahi-1] and
\* b[blo..bhi-1]: the longest common block, the earliest in a, then the
\* earliest in b; <<alo, blo, 0>> when the two share no character.  (Texts
\* shorter than 200 characters: the autojunk heuristic does not apply.)
\* The set of candidate blocks is computed once and bound to S.
find_longest_match(a, b, alo, ahi, blo, bhi) ==
    CHOOSE block \in
        { IF S = {} THEN <<alo, blo, 0>>
          ELSE CHOOSE m \in S : \A n \in S :
                    \/ n[3] < m[3]
                    \/ n[3] = m[3] /\ m[1] < n[1]
                    \/ n[3] = m[3] /\ m[1] = n[1] /\ m[2] <= n[2] :
          S \in { { <<p[1], p[2], CommonRun(a, b, p[1], ahi, p[2], bhi)>> :
                        p \in { q \in (alo..(ahi - 1)) \X (blo..(bhi - 1)) :
                                    a[q[1]] = b[q[2]] } } } } : TRUE

RECURSIVE matching_size(_, _, _, _, _, _)
\* The sum of the sizes of SequenceMatcher.get_matching_blocks: the longest
\* block m, then the same to its left and to its right.
matching_size(a, b, alo, ahi, blo, bhi) ==
    CHOOSE total \in
        { IF m[3] = 0 THEN 0
          ELSE m[3] + matching_size(a, b, alo, m[1], blo, m[2])
                    + matching_size(a, b, m[1] + m[3], ahi, m[2] + m[3], bhi) :
          m \in { find_longest_match(a, b, alo, ahi, blo, bhi) } } : TRUE

calculate_text_similarity_NoEmptyCase(text1, text2) ==
    IF text1 = <<>> \/ text2 = <<>> THEN [num |-> 0, den |-> 1]
    ELSE [num |-> 200 * matching_size(text1, text2, 1, Len(text1) + 1, 1, Len(text2) + 1),
          den |-> Len(text1) + Len(text2)]

\* The similarity in percent, as the fraction num / den:
\* 100 * SequenceMatcher.ratio() = 100 * 2 * matches / (len(text1) + len(text2)).
calculate_text_similarity(text1, text2) ==
    IF text1 = <<>> /\ text2 = <<>> THEN [num |-> 100, den |-> 1]
    ELSE IF text1 = <<>> \/ text2 = <<>> THEN [num |-> 0, den |-> 1]
    ELSE [num |-> 200 * matching_size(text1, text2, 1, Len(text1) + 1, 1, Len(text2) + 1),
          den |-> Len(text1) + Len(text2)]

\* The length of the match of \$[\d,]+(?:\.\d{2})? at position i, 0: none
DollarPriceAt(text, i) ==
    IF text[i] # "$" THEN 0
    ELSE LET r == RunLen(text, i + 1, Digits \cup {","})
             e == i + 1 + r
         IN  IF r = 0 THEN 0
             ELSE IF /\ e + 2 <= Len(text)
                     /\ text[e] = "."
                     /\ text[e + 1] \in Digits
                     /\ text[e + 2] \in Digits
                  THEN 1 + r + 3
                  ELSE 1 + r

\* (?:USD|EUR|GBP) at position i, case-insensitive
CurrencyAt(text, i) ==
    /\ i + 2 <= Len(text)
    /\ Lower(SubSeq(text, i, i + 2)) \in
            { <<"u", "s", "d">>, <<"e", "u", "r">>, <<"g", "b", "p">> }

\* The length of the match of \d+(?:\.\d{2})?\s*(?:USD|EUR|GBP) at i, 0: none
CurrencyPriceAt(text, i) ==
    LET d == RunLen(text, i, Digits)
        e == i + d
        g == IF /\ e + 2 <= Len(text)
                /\ text[e] = "."
                /\ text[e + 1] \in Digits
                /\ text[e + 2] \in Digits
             THEN 3 ELSE 0
        w == RunLen(text, e + g, {" "})
    IN  IF d > 0 /\ CurrencyAt(text, e + g + w) THEN d + g + w + 3 ELSE 0

\* The length of the match of price_pattern at position i, 0: none
PriceAt(text, i) ==
    CHOOSE n \in { IF dollar > 0 THEN dollar ELSE CurrencyPriceAt(text, i) :
                    dollar \in { DollarPriceAt(text, i) } } : TRUE

RECURSIVE find_prices(_, _)
\* set(re.findall(price_pattern, text, re.I)), scanning from position i: the
\* first match from i on, then the matches after its end
find_prices(text, i) ==
    UNION { IF matches = {} THEN {}
            ELSE UNION { {SubSeq(text, first[1], first[1] + first[2] - 1)}
                            \cup find_prices(text, first[1] + first[2]) :
                         first \in { m \in matches : \A k \in matches : m[1] <= k[1] } } :
            matches \in { { m \in { <<j, PriceAt(text, j)>> : j \in i..Len(text) } :
                                m[2] > 0 } } }

common_words ==
    { <<"t", "h", "e">>, <<"a">>, <<"a", "n">>, <<"a", "n", "d">>, <<"o", "r">>,
      <<"b", "u", "t">>, <<"i", "n">>, <<"o", "n">>, <<"a", "t">>, <<"t", "o">>,
      <<"f", "o", "r">>, <<"o", "f">>, <<"i", "s">>, <<"a", "r", "e">>,
      <<"w", "a", "s">>, <<"w", "e", "r", "e">> }

RECURSIVE KSubsets(_, _)
\* The subsets of S with k elements.
KSubsets(S, k) ==
    IF k = 0 THEN {{}}
    ELSE IF Cardinality(S) < k THEN {}
    ELSE LET x == CHOOSE y \in S : TRUE
         IN  KSubsets(S \ {x}, k) \cup { T \cup {x} : T \in KSubsets(S \ {x}, k - 1) }

first_n_NoCap(words, limit) == {words}

\* list(words)[:limit] for a set of words, as a set: a set iterates in an
\* order the code does not fix, so beyond limit words any limit of them
\* can be the ones kept.
first_n(words, limit) ==
    IF Cardinality(words) <= limit THEN {words}
    ELSE { words \ dropped : dropped \in KSubsets(words, Cardinality(words) - limit) }

is_significant_AnyLength(w) == w \notin common_words

\* w not in common_words and len(w) > 3
is_significant(w) == w \notin common_words /\ Len(w) > 3

\* Every result extract_key_changes can return for the two texts.
key_changes_outcomes(old_text, new_text) ==
    LET old_words == Words(Lower(old_text))
        new_words == Words(Lower(new_text))
        added == new_words \ old_words
        removed == old_words \ new_words
        significant_added == { w \in added : is_significant(w) }
        significant_removed == { w \in removed : is_significant(w) }
    IN  { [added_phrases |-> a,
           removed_phrases |-> r,
           price_changes |-> IF old_prices # new_prices
                             THEN [old_prices |-> old_prices, new_prices |-> new_prices]
                             ELSE <<>>] :
            a \in first_n(significant_added, 20),
            r \in first_n(significant_removed, 20),
            old_prices \in { find_prices(old_text, 1) },
            new_prices \in { find_prices(new_text, 1) } }

\* extract_key_changes where it is called on texts of at most 20 significant
\* words a side, which leave it one result.
extract_key_changes(old_text, new_text) ==
    CHOOSE key_changes \in key_changes_outcomes(old_text, new_text) : TRUE

----------------------------------------------------------------------------
(* change_detector.py: comparing snapshots *)

\* The keys of {p["url"]: p for p in pages}, in the order a dict iterates
\* them: that of each URL's first page.
UrlKeys(page_list) ==
    LET first == { i \in 1..Len(page_list) :
                      \A k \in 1..(i - 1) : page_list[k].url # page_list[i].url }
        nth[n \in 1..Cardinality(first)] ==
            CHOOSE i \in first : Cardinality({ k \in first : k < i }) = n - 1
    IN  [n \in 1..Cardinality(first) |-> page_list[nth[n]].url]

\* {p["url"]: p for p in pages}[url]: the last page of that URL
by_url(page_list, url) ==
    page_list[CHOOSE i \in 1..Len(page_list) :
                /\ page_list[i].url = url
                /\ \A k \in (i + 1)..Len(page_list) : page_list[k].url # url]

InSeq(x, seq) == \E i \in 1..Len(seq) : seq[i] = x

AtLeastThreshold_Strict(similarity) ==
    100 * similarity.den - similarity.num > CONTENT_CHANGE_THRESHOLD * similarity.den

\* change_percent >= CONTENT_CHANGE_THRESHOLD, for 100 - num / den
AtLeastThreshold(similarity) ==
    100 * similarity.den - similarity.num >= CONTENT_CHANGE_THRESHOLD * similarity.den

hash_differs_Always(old_page, new_page) == TRUE

\* old_page["content_hash"] != new_page["content_hash"]
hash_differs(old_page, new_page) == old_page.content_hash # new_page.content_hash

is_absent_Never(url, keys) == FALSE

\* url not in other_by_url
is_absent(url, keys) == ~InSeq(url, keys)

compare_pages(old_list, new_list) ==
    LET old_keys == UrlKeys(old_list)
        new_keys == UrlKeys(new_list)
        \* [f(x) for x in seq if keep(x)]
        MapSelect(seq, keep(_), f(_)) ==
            LET kept == SelectSeq(seq, keep) IN [i \in 1..Len(kept) |-> f(kept[i])]
        IsNew(url) == is_absent(url, old_keys)
        IsRemoved(url) == is_absent(url, new_keys)
        Similarity(url) == calculate_text_similarity(by_url(old_list, url).text_content,
                                                     by_url(new_list, url).text_content)
        IsChanged(url) ==
            /\ InSeq(url, new_keys)
            /\ hash_differs(by_url(old_list, url), by_url(new_list, url))
            /\ AtLeastThreshold(Similarity(url))
        NewPage(url) == [type |-> "new_page", url |-> url]
        RemovedPage(url) == [type |-> "removed_page", url |-> url]
        ContentChanged(url) ==
            CHOOSE record \in
                { [type |-> "content_changed", url |-> url,
                   change_percent |-> [num |-> 100 * similarity.den - similarity.num,
                                       den |-> similarity.den],
                   key_changes |-> extract_key_changes(by_url(old_list, url).text_content,
                                                       by_url(new_list, url).text_content)] :
                  similarity \in { Similarity(url) } } : TRUE
    IN  MapSelect(new_keys, IsNew, NewPage)
            \o MapSelect(old_keys, IsRemoved, RemovedPage)
            \o MapSelect(old_keys, IsChanged, ContentChanged)

\* not pricing: None, or an empty dict
Falsy(pricing) == pricing = None \/ pricing = <<>>

compare_pricing_NoPriceCheck(old_pricing, new_pricing) ==
    IF Falsy(old_pricing) /\ Falsy(new_pricing) THEN None
    ELSE IF Falsy(old_pricing)
    THEN [type |-> "pricing_added", url |-> new_pricing.url]
    ELSE IF Falsy(new_pricing)
    THEN [type |-> "pricing_removed", url |-> old_pricing.url]
    ELSE IF hash_differs(old_pricing, new_pricing)
    THEN [type |-> "pricing_page_updated", url |-> new_pricing.url]
    ELSE None

compare_pricing_Thresholded(old_pricing, new_pricing) ==
    IF Falsy(old_pricing) /\ Falsy(new_pricing) THEN None
    ELSE IF Falsy(old_pricing)
    THEN [type |-> "pricing_added", url |-> new_pricing.url]
    ELSE IF Falsy(new_pricing)
    THEN [type |-> "pricing_removed", url |-> old_pricing.url]
    ELSE IF /\ hash_differs(old_pricing, new_pricing)
            /\ AtLeastThreshold(calculate_text_similarity(old_pricing.text_content,
                                                          new_pricing.text_content))
    THEN CHOOSE record \in
            { IF key_changes.price_changes # <<>>
              THEN [type |-> "pricing_changed", url |-> new_pricing.url,
                    price_changes |-> key_changes.price_changes]
              ELSE [type |-> "pricing_page_updated", url |-> new_pricing.url] :
              key_changes \in { extract_key_changes(old_pricing.text_content,
                                                    new_pricing.text_content) } } : TRUE
    ELSE None

compare_pricing(old_pricing, new_pricing) ==
    IF Falsy(old_pricing) /\ Falsy(new_pricing) THEN None
    ELSE IF Falsy(old_pricing)
    THEN [type |-> "pricing_added", url |-> new_pricing.url]
    ELSE IF Falsy(new_pricing)
    THEN [type |-> "pricing_removed", url |-> old_pricing.url]
    ELSE IF hash_differs(old_pricing, new_pricing)
    THEN CHOOSE record \in
            { IF key_changes.price_changes # <<>>
              THEN [type |-> "pricing_changed", url |-> new_pricing.url,
                    price_changes |-> key_changes.price_changes]
              ELSE [type |-> "pricing_page_updated", url |-> new_pricing.url] :
              key_changes \in { extract_key_changes(old_pricing.text_content,
                                                    new_pricing.text_content) } } : TRUE
    ELSE None

detect_all_changes_NewCompetitorPages(old_data, new_data) ==
    LET entry(c) ==
            CHOOSE e \in
                { [page_changes |-> page_changes,
                   pricing_changes |-> pricing_changes,
                   total_changes |-> Len(page_changes)
                        + (IF pricing_changes # None THEN 1 ELSE 0)] :
                  page_changes \in
                    { compare_pages(IF c \in DOMAIN old_data THEN old_data[c].pages
                                    ELSE <<>>,
                                    new_data[c].pages) },
                  pricing_changes \in
                    { compare_pricing(IF c \in DOMAIN old_data
                                      THEN old_data[c].pricing_page ELSE None,
                                      new_data[c].pricing_page) } } : TRUE
    IN  CHOOSE result \in
            { [c \in { d \in DOMAIN new_data :
                            \/ d \notin DOMAIN old_data
                            \/ entries[d].page_changes # <<>>
                            \/ entries[d].pricing_changes # None } |-> entries[c]] :
              entries \in { [c \in DOMAIN new_data |-> entry(c)] } } : TRUE

\* The dict detect_all_changes returns: for a competitor the old file lacks
\* the summary entry; for any other its page changes and pricing change,
\* each computed once, and only when one of the two is not empty.
detect_all_changes(old_data, new_data) ==
    LET entry(c) ==
            IF c \notin DOMAIN old_data
            THEN [summary |-> "New competitor added to monitoring",
                  page_changes |-> <<>>, pricing_changes |-> None]
            ELSE CHOOSE e \in
                    { [page_changes |-> page_changes,
                       pricing_changes |-> pricing_changes,
                       total_changes |-> Len(page_changes)
                            + (IF pricing_changes # None THEN 1 ELSE 0)] :
                      page_changes \in
                        { compare_pages(old_data[c].pages, new_data[c].pages) },
                      pricing_changes \in
                        { compare_pricing(old_data[c].pricing_page,
                                          new_data[c].pricing_page) } } : TRUE
    IN  CHOOSE result \in
            { [c \in { d \in DOMAIN new_data :
                            \/ d \notin DOMAIN old_data
                            \/ entries[d].page_changes # <<>>
                            \/ entries[d].pricing_changes # None } |-> entries[c]] :
              entries \in { [c \in DOMAIN new_data |-> entry(c)] } } : TRUE

----------------------------------------------------------------------------
(* The inputs of the comparisons *)

TextA == <<"P", "l", "a", "n", " ", "$", "9", "9">>
TextB == <<"P", "l", "a", "n", "s", " ", "$", "1", "4", "9">>

\* Three texts of a pricing page: TextM is TextL with one letter replaced (20
\* of 40 characters match twice over but one: 5 percent changed, the prices
\* the same), TextN is TextL with one digit more (less than 5 percent
\* changed, another price).
TextL ==
    <<"B", "o", "t", "h", " ", "p", "l", "a", "n", "s", " ", "w", "e", "r", "e", " ", "$", "1", "0", "0">>
TextM ==
    <<"B", "o", "t", "h", " ", "p", "l", "a", "n", "e", " ", "w", "e", "r", "e", " ", "$", "1", "0", "0">>
TextN ==
    <<"B", "o", "t", "h", " ", "p", "l", "a", "n", "s", " ", "w", "e", "r", "e", " ", "$", "1", "0", "0", "0">>

RECURSIVE ManyWords(_)
\* A text of n different words of five letters: "worda wordb wordc ..."
ManyWords(n) ==
    IF n = 0 THEN <<>>
    ELSE ManyWords(n - 1) \o (IF n > 1 THEN <<" ">> ELSE <<>>)
            \o <<"w", "o", "r", "d", LowerCase[n]>>

\* The texts given to the functions on two texts.
Texts == { <<>>, TextA, TextB, TextL, TextM, TextN, ManyWords(ManyWordsCount) }

\* A content hash and the stored text: a stored text is cut to 5000
\* characters, so two hashes can go with one stored text, and the model does
\* not tie the hash to the text.
Contents ==
    { [content_hash |-> "h1", text_content |-> TextL],
      [content_hash |-> "h2", text_content |-> TextM],
      [content_hash |-> "h3", text_content |-> TextN],
      [content_hash |-> "h1", text_content |-> TextA] }

SnapUrls == { Url("a.com", "", FALSE, "", ""), Url("a.com", "/p1", FALSE, "", "") }

\* The pages of a crawl file: the first URL with any content, the other
\* with one.
PageVals ==
    { [url |-> u, content_hash |-> c.content_hash, text_content |-> c.text_content] :
        u \in SnapUrls, c \in Contents } \
    { v \in [url : SnapUrls, content_hash : {"h1", "h2", "h3"},
             text_content : {TextA, TextM, TextN}] : v.url.path # "" }

SeqsUpTo(S, n) == UNION { [1..k -> S] : k \in 0..n }

PageLists == SeqsUpTo(PageVals, MaxSnapPages)

\* The records of one competitor in a crawl file.
CompetitorRecords ==
    { [pages |-> p, pricing_page |-> pp] :
        p \in PageLists,
        pp \in {None} \cup { v \in PageVals : v.url.path = "" } }

\* Crawl files: the first competitor with any record, a second one absent or
\* with a record of no page.
Snapshots ==
    { [c \in {"BETER"} |-> r] : r \in CompetitorRecords } \cup
    { [c \in {"BETER", "GRID"} |->
            IF c = "BETER" THEN r ELSE [pages |-> <<>>, pricing_page |-> pp]] :
        r \in CompetitorRecords,
        pp \in {None} \cup { v \in PageVals : v.url.path = "/p1" } }

----------------------------------------------------------------------------
(* compare_pages on two page lists *)

PagesInit ==
    /\ CrawlIdle
    /\ RunIdle
    /\ IdleBut("pages")
    /\ dpc = "input"
    /\ old_pages \in PageLists
    /\ new_pages \in PageLists
    /\ changes = <<>>

ComparePages ==
    /\ dpc = "input"
    /\ changes' = compare_pages(old_pages, new_pages)
    /\ dpc' = "compared"
    /\ UNCHANGED <<crawlVars, runVars, old_pages, new_pages, selfVars, textVars,
                   pricingVars, dataVars, visualVars,
                   moreVars>>

SpecPages == PagesInit /\ [][ComparePages]_vars

(* A snapshot compared with itself *)

SelfInit ==
    /\ CrawlIdle
    /\ RunIdle
    /\ IdleBut("self")
    /\ dpc = "input"
    /\ snapshot \in Snapshots
    /\ self_changes = <<>>

CompareSelf ==
    /\ dpc = "input"
    /\ self_changes' =
        [page_changes |-> [c \in DOMAIN snapshot |->
                compare_pages(snapshot[c].pages, snapshot[c].pages)],
         pricing_changes |-> [c \in DOMAIN snapshot |->
                compare_pricing(snapshot[c].pricing_page, snapshot[c].pricing_page)],
         all_changes |-> detect_all_changes(snapshot, snapshot)]
    /\ dpc' = "compared"
    /\ UNCHANGED <<crawlVars, runVars, pagesVars, snapshot, textVars, pricingVars,
                   dataVars, visualVars,
                   moreVars>>

SpecSelf == SelfInit /\ [][CompareSelf]_vars

(* detect_all_changes on two crawl files *)

Page(url, content_hash, text_content) ==
    [url |-> url, content_hash |-> content_hash, text_content |-> text_content]

\* The records of a competitor in the two crawl files compared.
FileRecords ==
    LET root == Url("a.com", "", FALSE, "", "")
        p1 == Url("a.com", "/p1", FALSE, "", "")
    IN  { [pages |-> p, pricing_page |-> pp] :
            p \in { <<>>,
                    <<Page(root, "h1", TextL)>>,
                    <<Page(root, "h2", TextM)>>,
                    <<Page(root, "h1", TextL), Page(p1, "h1", TextL)>> },
            pp \in { None, Page(p1, "h1", TextL), Page(p1, "h3", TextN) } }

\* Crawl files: the first competitor with any record, a second one absent,
\* with nothing fetched or with one page.
CrawlFiles ==
    { [c \in {"BETER"} |-> r] : r \in FileRecords } \cup
    { [c \in {"BETER", "GRID"} |-> IF c = "BETER" THEN r ELSE g] :
        r \in FileRecords,
        g \in { [pages |-> <<>>, pricing_page |-> None],
                [pages |-> <<Page(Url("b.com", "", FALSE, "", ""), "h1", TextA)>>,
                 pricing_page |-> None] } }

DetectInit ==
    /\ CrawlIdle
    /\ RunIdle
    /\ IdleBut("data")
    /\ dpc = "input"
    /\ old_file \in CrawlFiles
    /\ new_file \in CrawlFiles
    /\ all_changes = <<>>

DetectAllChanges ==
    /\ dpc = "input"
    /\ all_changes' = detect_all_changes(old_file, new_file)
    /\ dpc' = "compared"
    /\ UNCHANGED <<crawlVars, runVars, pagesVars, selfVars, textVars, pricingVars,
                   old_file, new_file, visualVars,
                   moreVars>>

SpecDetect == DetectInit /\ [][DetectAllChanges]_vars

(* compare_pricing on two pricing pages *)

\* The pricing_page of a competitor in a crawl file: None, or a page with its
\* whole text.
PricingPages ==
    {None} \cup [url : SnapUrls, content_hash : {"h1", "h2"},
                 text_content : {TextA, TextL, TextM, TextN}]

PricingInit ==
    /\ CrawlIdle
    /\ RunIdle
    /\ IdleBut("pricing")
    /\ dpc = "input"
    /\ old_pricing_page \in PricingPages
    /\ new_pricing_page \in PricingPages
    /\ pricing_change = <<>>

ComparePricing ==
    /\ dpc = "input"
    /\ pricing_change' = compare_pricing(old_pricing_page, new_pricing_page)
    /\ dpc' = "compared"
    /\ UNCHANGED <<crawlVars, runVars, pagesVars, selfVars, textVars,
                   old_pricing_page, new_pricing_page, dataVars, visualVars,
                   moreVars>>

SpecPricing == PricingInit /\ [][ComparePricing]_vars

(* calculate_text_similarity and extract_key_changes on two texts *)

TextsInit ==
    /\ CrawlIdle
    /\ RunIdle
    /\ IdleBut("text")
    /\ dpc = "input"
    /\ text_one \in Texts
    /\ text_two \in Texts
    /\ text_result = <<>>

TextSimilarity ==
    /\ dpc = "input"
    /\ text_result' = [similarity |-> calculate_text_similarity(text_one, text_two)]
    /\ dpc' = "compared"
    /\ UNCHANGED <<crawlVars, runVars, pagesVars, selfVars, text_one, text_two,
                   pricingVars, dataVars, visualVars,
                   moreVars>>

KeyChanges ==
    /\ dpc = "input"
    /\ \E key_changes \in key_changes_outcomes(text_one, text_two) :
            text_result' = [key_changes |-> key_changes]
    /\ dpc' = "compared"
    /\ UNCHANGED <<crawlVars, runVars, pagesVars, selfVars, text_one, text_two,
                   pricingVars, dataVars, visualVars,
                   moreVars>>

SpecTexts == TextsInit /\ [][TextSimilarity \/ KeyChanges]_vars

----------------------------------------------------------------------------
(* screenshot_monitor.py: compare_screenshots.  A percentage is a fraction *)
(* num / den.                                                              *)

\* max(0, 100 - (diff / 64 * 100))
hash_similarity(diff) ==
    [num |-> IF 100 * HashBits - 100 * diff > 0 THEN 100 * HashBits - 100 * diff ELSE 0,
     den |-> HashBits]

\* (phash_similarity + ahash_similarity) / 2, the two over one denominator
mean(x, y) == [num |-> x.num + y.num, den |-> 2 * x.den]

is_similar_Raw(avg_similarity) ==
    avg_similarity.num >= VISUAL_CHANGE_THRESHOLD * avg_similarity.den

\* avg_similarity >= (100 - VISUAL_CHANGE_THRESHOLD)
is_similar(avg_similarity) ==
    avg_similarity.num >= (100 - VISUAL_CHANGE_THRESHOLD) * avg_similarity.den

\* round(x, 1), in tenths: to the nearest tenth, a tie to the even one
round1(x) ==
    LET q == (10 * x.num) \div x.den
        r == (10 * x.num) % x.den
    IN  IF 2 * r > x.den THEN q + 1
        ELSE IF 2 * r = x.den THEN q + (q % 2)
        ELSE q

compare_screenshots_Uncaught(pil_available, image1_ok, image2_ok, hash_diff, ahash_diff) ==
    IF ~pil_available
    THEN [error |-> "PIL/imagehash not available", similar |-> None]
    ELSE IF ~image1_ok
    THEN [error |-> "exception", similar |-> None]
    ELSE IF ~image2_ok
    THEN [raised |-> "exception"]
    ELSE LET avg_similarity == mean(hash_similarity(hash_diff),
                                    hash_similarity(ahash_diff))
         IN  [similar |-> is_similar(avg_similarity),
              similarity_percent |-> round1(avg_similarity),
              phash_diff |-> hash_diff,
              ahash_diff |-> ahash_diff]

\* pil_available: the import of lines 24-28 succeeded; image1_ok, image2_ok:
\* the file opens and decodes, where it does not Image.open or the hashing
\* raises inside the try; hash_diff, ahash_diff: the Hamming distances of
\* the two perceptual and the two average hashes.
compare_screenshots(pil_available, image1_ok, image2_ok, hash_diff, ahash_diff) ==
    IF ~pil_available
    THEN [error |-> "PIL/imagehash not available", similar |-> None]
    ELSE IF ~image1_ok \/ ~image2_ok
    THEN [error |-> "exception", similar |-> None]
    ELSE LET avg_similarity == mean(hash_similarity(hash_diff),
                                    hash_similarity(ahash_diff))
         IN  [similar |-> is_similar(avg_similarity),
              similarity_percent |-> round1(avg_similarity),
              phash_diff |-> hash_diff,
              ahash_diff |-> ahash_diff]

\* The worlds compare_screenshots is called in: two images that decode have
\* hash distances, otherwise there are none (0 stands for that).
ScreenInputs ==
    { i \in [pil_available : BOOLEAN, image1_ok : BOOLEAN, image2_ok : BOOLEAN,
             hash_diff : 0..HashBits, ahash_diff : 0..HashBits] :
        (i.image1_ok /\ i.image2_ok) \/ (i.hash_diff = 0 /\ i.ahash_diff = 0) }

VisualInit ==
    /\ CrawlIdle
    /\ RunIdle
    /\ IdleBut("visual")
    /\ dpc = "input"
    /\ screens \in ScreenInputs
    /\ comparison = <<>>

CompareScreenshots ==
    /\ dpc = "input"
    /\ comparison' = compare_screenshots(screens.pil_available, screens.image1_ok,
                                         screens.image2_ok, screens.hash_diff,
                                         screens.ahash_diff)
    /\ dpc' = "compared"
    /\ UNCHANGED <<crawlVars, runVars, pagesVars, selfVars, textVars, pricingVars,
                   dataVars, screens,
                   moreVars>>

SpecVisual == VisualInit /\ [][CompareScreenshots]_vars

----------------------------------------------------------------------------
(* Claims about the comparisons *)

\* C9: comparing a snapshot with itself yields no change: compare_pages is
\* empty and compare_pricing is None for every competitor of it, and
\* detect_all_changes is empty.
C9_SelfCompareEmpty ==
    dpc = "compared" =>
        /\ \A c \in DOMAIN snapshot :
            /\ self_changes.page_changes[c] = <<>>
            /\ self_changes.pricing_changes[c] = None
        /\ DOMAIN self_changes.all_changes = {}

\* A snapshot with a pricing page and two pages of one URL and different
\* hashes has been compared with itself.
C9_Witness ==
    /\ dpc = "compared"
    /\ \E c \in DOMAIN snapshot :
        /\ snapshot[c].pricing_page # None
        /\ Len(snapshot[c].pages) = 2
        /\ snapshot[c].pages[1].url = snapshot[c].pages[2].url
        /\ snapshot[c].pages[1].content_hash # snapshot[c].pages[2].content_hash

UrlsOf(page_list) == { page_list[i].url : i \in 1..Len(page_list) }

RecordsOf(type, url) ==
    { i \in 1..Len(changes) : changes[i].type = type /\ changes[i].url = url }

\* C10: compare_pages emits exactly one new_page record for each URL of the
\* new list that the old one lacks, exactly one removed_page record for each
\* URL of the old list that the new one lacks, and none for any other URL.
C10_NewAndRemovedPages ==
    dpc = "compared" =>
        /\ \A u \in UrlsOf(new_pages) \ UrlsOf(old_pages) :
                Cardinality(RecordsOf("new_page", u)) = 1
        /\ \A u \in UrlsOf(old_pages) \ UrlsOf(new_pages) :
                Cardinality(RecordsOf("removed_page", u)) = 1
        /\ \A i \in 1..Len(changes) :
            /\ changes[i].type = "new_page" =>
                    changes[i].url \in UrlsOf(new_pages) \ UrlsOf(old_pages)
            /\ changes[i].type = "removed_page" =>
                    changes[i].url \in UrlsOf(old_pages) \ UrlsOf(new_pages)

\* Two lists have been compared, the new one with two pages of a URL the old
\* one lacks, the old one with a URL the new one lacks.
C10_Witness ==
    /\ dpc = "compared"
    /\ Len(new_pages) = 2
    /\ new_pages[1].url = new_pages[2].url
    /\ new_pages[1].url \notin UrlsOf(old_pages)
    /\ UrlsOf(old_pages) \ UrlsOf(new_pages) # {}

\* The page a dict built from page_list holds for url: the last of that URL.
LastPage(page_list, url) ==
    LET at == { i \in 1..Len(page_list) : page_list[i].url = url }
    IN  page_list[CHOOSE i \in at : \A k \in at : k <= i]

\* C11: for a URL in both lists, compare_pages emits a content_changed record
\* exactly when the two content hashes differ and the change in percent,
\* 100 - similarity, is at least CONTENT_CHANGE_THRESHOLD, and the record
\* carries that percentage; when the hashes are equal it emits no record for
\* the URL, whatever the texts.
C11_ContentChanged ==
    dpc = "compared" =>
        \A u \in UrlsOf(old_pages) \cap UrlsOf(new_pages) :
            LET old_page == LastPage(old_pages, u)
                new_page == LastPage(new_pages, u)
                sim == calculate_text_similarity(old_page.text_content,
                                                 new_page.text_content)
                emitted == RecordsOf("content_changed", u)
            IN  /\ emitted # {} <=>
                    /\ old_page.content_hash # new_page.content_hash
                    /\ 100 * sim.den - sim.num >= CONTENT_CHANGE_THRESHOLD * sim.den
                /\ Cardinality(emitted) <= 1
                /\ \A i \in emitted :
                        changes[i].change_percent.num * sim.den
                            = (100 * sim.den - sim.num) * changes[i].change_percent.den
                /\ old_page.content_hash = new_page.content_hash =>
                        \A i \in 1..Len(changes) : changes[i].url # u

\* Two lists have been compared that hold one URL with different hashes and
\* texts changed by exactly CONTENT_CHANGE_THRESHOLD percent (the record is
\* emitted), the new list holding before it a page of that URL changed by
\* less.
C11_Witness ==
    /\ dpc = "compared"
    /\ Len(new_pages) = 2
    /\ new_pages[1].url = new_pages[2].url
    /\ new_pages[1].text_content = TextN
    /\ Len(old_pages) = 1
    /\ old_pages[1].text_content = TextL
    /\ \E i \in 1..Len(changes) :
        /\ changes[i].type = "content_changed"
        /\ changes[i].change_percent.num
                = CONTENT_CHANGE_THRESHOLD * changes[i].change_percent.den

\* C12: calculate_text_similarity(t, t) is 100, so the change in percent is
\* 0, for every text t, the empty one included.
C12_SelfSimilarity ==
    (/\ dpc = "compared"
     /\ "similarity" \in DOMAIN text_result
     /\ text_one = text_two) =>
        /\ text_result.similarity.num = 100 * text_result.similarity.den
        /\ 100 * text_result.similarity.den - text_result.similarity.num = 0

\* The empty text has been compared with itself.
C12_Witness ==
    /\ dpc = "compared"
    /\ "similarity" \in DOMAIN text_result
    /\ text_one = <<>>
    /\ text_two = <<>>

\* C15: extract_key_changes returns at most 20 added and at most 20 removed
\* terms; every added term is a (lower-cased) token of the new text and not
\* of the old one, every removed term one of the old text and not of the new
\* one; every term is longer than 3 characters and not a stop word.
C15_KeyChanges ==
    (dpc = "compared" /\ "key_changes" \in DOMAIN text_result) =>
        LET added == text_result.key_changes.added_phrases
            removed == text_result.key_changes.removed_phrases
            old_tokens == Words(Lower(text_one))
            new_tokens == Words(Lower(text_two))
        IN  /\ Cardinality(added) <= 20
            /\ Cardinality(removed) <= 20
            /\ added \subseteq new_tokens \ old_tokens
            /\ removed \subseteq old_tokens \ new_tokens
            /\ \A w \in added \cup removed : Len(w) > 3 /\ w \notin common_words

\* The key changes of two texts have been extracted, the new one with more
\* than 20 words the old one lacks and 20 of them returned, the old one with
\* a stop word of four letters the new one lacks.
C15_Witness ==
    /\ dpc = "compared"
    /\ "key_changes" \in DOMAIN text_result
    /\ Cardinality(Words(Lower(text_two)) \ Words(Lower(text_one))) > 20
    /\ Cardinality(text_result.key_changes.added_phrases) = 20
    /\ <<"w", "e", "r", "e">> \in Words(Lower(text_one)) \ Words(Lower(text_two))

\* The price tokens of a pricing page's text.
PricesOf(pricing) == find_prices(pricing.text_content, 1)

\* C13: compare_pricing follows its table on every input: nothing when both
\* pages are absent; pricing_added when only the new one is present;
\* pricing_removed when only the old one is; nothing when both are present
\* with equal hashes; pricing_changed, carrying the old and the new price
\* sets, when the hashes differ and the price sets differ;
\* pricing_page_updated when the hashes differ and the price sets are equal.
C13_PricingTable ==
    dpc = "compared" =>
        LET old == old_pricing_page
            new == new_pricing_page
            out == pricing_change
        IN  /\ (old = None /\ new = None) => out = None
            /\ (old = None /\ new # None) =>
                    out = [type |-> "pricing_added", url |-> new.url]
            /\ (old # None /\ new = None) =>
                    out = [type |-> "pricing_removed", url |-> old.url]
            /\ (old # None /\ new # None /\ old.content_hash = new.content_hash) =>
                    out = None
            /\ (/\ old # None
                 /\ new # None
                 /\ old.content_hash # new.content_hash
                 /\ PricesOf(old) # PricesOf(new)) =>
                    out = [type |-> "pricing_changed", url |-> new.url,
                           price_changes |-> [old_prices |-> PricesOf(old),
                                              new_prices |-> PricesOf(new)]]
            /\ (/\ old # None
                 /\ new # None
                 /\ old.content_hash # new.content_hash
                 /\ PricesOf(old) = PricesOf(new)) =>
                    out = [type |-> "pricing_page_updated", url |-> new.url]

\* Two pricing pages of different hashes, different texts and the same
\* prices have been compared.
C13_Witness ==
    /\ dpc = "compared"
    /\ old_pricing_page # None
    /\ new_pricing_page # None
    /\ old_pricing_page.content_hash # new_pricing_page.content_hash
    /\ old_pricing_page.text_content # new_pricing_page.text_content
    /\ PricesOf(old_pricing_page) = PricesOf(new_pricing_page)
    /\ pricing_change # None

\* The text of the new pricing page differs from that of the old one by less
\* than CONTENT_CHANGE_THRESHOLD percent.
BelowThreshold ==
    LET sim == calculate_text_similarity(old_pricing_page.text_content,
                                         new_pricing_page.text_content)
    IN  100 * sim.den - sim.num < CONTENT_CHANGE_THRESHOLD * sim.den

\* C14: two pricing pages of different hashes whose price sets differ are
\* reported as pricing_changed also when their texts differ by less than
\* CONTENT_CHANGE_THRESHOLD percent: compare_pricing does not consult the
\* threshold.
C14_PricingIgnoresThreshold ==
    (/\ dpc = "compared"
     /\ old_pricing_page # None
     /\ new_pricing_page # None
     /\ old_pricing_page.content_hash # new_pricing_page.content_hash
     /\ PricesOf(old_pricing_page) # PricesOf(new_pricing_page)
     /\ BelowThreshold) =>
        /\ pricing_change # None
        /\ pricing_change.type = "pricing_changed"

\* A pricing_changed record has been returned for two pricing pages whose
\* texts differ by less than CONTENT_CHANGE_THRESHOLD percent.
C14_Witness ==
    /\ dpc = "compared"
    /\ pricing_change # None
    /\ pricing_change.type = "pricing_changed"
    /\ BelowThreshold

\* The URLs an entry of all_changes refers to: those of its page change
\* records and of its pricing change record.
EntryUrls(entry) ==
    { entry.page_changes[i].url : i \in 1..Len(entry.page_changes) } \cup
    (IF entry.pricing_changes # None THEN {entry.pricing_changes.url} ELSE {})

\* The URLs of the pages of competitor c in a file.
PageUrls(file, c) == IF c \in DOMAIN file THEN UrlsOf(file[c].pages) ELSE {}

\* The URL of the pricing page of competitor c in a file, if it has one.
PricingUrls(file, c) ==
    IF c \in DOMAIN file /\ file[c].pricing_page # None
    THEN {file[c].pricing_page.url}
    ELSE {}

\* The URLs of the pages and of the pricing page of competitor c in a file.
FileUrls(file, c) == PageUrls(file, c) \cup PricingUrls(file, c)

\* C16 as claimed: every entry of detect_all_changes, the competitor-level
\* ones included, refers to a URL, and to none but URLs of a page or of the
\* pricing page in one of the two files.
C16_EveryEntryRefersToUrl ==
    dpc = "compared" =>
        \A c \in DOMAIN all_changes :
            /\ EntryUrls(all_changes[c]) # {}
            /\ EntryUrls(all_changes[c]) \subseteq
                    UNION { FileUrls(old_file, k) \cup FileUrls(new_file, k) :
                                k \in DOMAIN old_file \cup DOMAIN new_file }

\* C16 amended: every page change record and every pricing change record of
\* detect_all_changes carries the URL of a page, or of the pricing page, of
\* its competitor in one of the two files; the entry of a competitor the old
\* file lacks carries no record and so no URL.
C16_RecordsReferToFileUrls ==
    dpc = "compared" =>
        \A c \in DOMAIN all_changes :
            /\ \A i \in 1..Len(all_changes[c].page_changes) :
                    all_changes[c].page_changes[i].url \in
                        PageUrls(old_file, c) \cup PageUrls(new_file, c)
            /\ all_changes[c].pricing_changes # None =>
                    all_changes[c].pricing_changes.url \in
                        PricingUrls(old_file, c) \cup PricingUrls(new_file, c)
            /\ c \notin DOMAIN old_file => EntryUrls(all_changes[c]) = {}

\* Two files have been compared, the new one with a competitor the old one
\* lacks and one page of it, and with a page change and a pricing change of
\* the competitor of both.
C16_Witness ==
    /\ dpc = "compared"
    /\ \E c \in DOMAIN all_changes :
        /\ c \notin DOMAIN old_file
        /\ new_file[c].pages # <<>>
    /\ \E c \in DOMAIN all_changes :
        /\ c \in DOMAIN old_file
        /\ all_changes[c].page_changes # <<>>
        /\ all_changes[c].pricing_changes # None

\* 64 times max(0, 100 - d * 100 / 64)
Percent64(d) == IF 6400 - 100 * d > 0 THEN 6400 - 100 * d ELSE 0

\* C18: for two images that decode, with Hamming distances dp and da in
\* 0..64, the similarity is the mean of max(0, 100 - dp*100/64) and
\* max(0, 100 - da*100/64) (reported rounded to one decimal), it lies in
\* [0, 100], and similar is true exactly when the mean is at least
\* 100 - VISUAL_CHANGE_THRESHOLD.
C18_VisualSimilarity ==
    (/\ dpc = "compared"
     /\ screens.pil_available
     /\ screens.image1_ok
     /\ screens.image2_ok) =>
        LET mean128 == Percent64(screens.hash_diff) + Percent64(screens.ahash_diff)
        IN  /\ DOMAIN comparison =
                    {"similar", "similarity_percent", "phash_diff", "ahash_diff"}
            /\ 0 <= mean128
            /\ mean128 <= 100 * 128
            /\ comparison.similar = (mean128 >= (100 - VISUAL_CHANGE_THRESHOLD) * 128)
            \* similarity_percent, in tenths, is the tenth nearest the mean
            /\ (2 * 128 * comparison.similarity_percent - 20 * mean128) \in -128..128
            /\ comparison.similarity_percent \in 0..1000

\* Two images have been compared that are as far apart as similar images
\* can be: distances 12 and 0, similarity 90.625.
C18_Witness ==
    /\ dpc = "compared"
    /\ screens.pil_available
    /\ screens.hash_diff = 12
    /\ screens.ahash_diff = 0
    /\ comparison.similar = TRUE
    /\ comparison.similarity_percent = 906

\* C19: when an image cannot be read or decoded, or the image libraries are
\* not installed, compare_screenshots returns a result with an error field
\* and similar = None: it does not raise and does not return a true or
\* false similar.
C19_ErrorResult ==
    (/\ dpc = "compared"
     /\ (~screens.pil_available \/ ~screens.image1_ok \/ ~screens.image2_ok)) =>
        /\ "raised" \notin DOMAIN comparison
        /\ "error" \in DOMAIN comparison
        /\ "similar" \in DOMAIN comparison
        /\ comparison.similar = None

\* Two images have been compared with the libraries installed, the first
\* one decoding and the second one not.
C19_Witness ==
    /\ dpc = "compared"
    /\ screens.pil_available
    /\ screens.image1_ok
    /\ ~screens.image2_ok

\* C17 as claimed: in every competitor's entry built by
\* crawl_all_competitors no two pages have the same normalized URL.
C17_UniqueNormalizedUrls ==
    \A c \in DOMAIN results :
        \A i, j \in 1..Len(results[c].pages) :
            normalize_url(results[c].pages[i].url) = normalize_url(results[c].pages[j].url)
                => i = j

\* The names of the configured competitors.
Names == { competitors[i].name : i \in 1..Len(competitors) }

\* C20: no crawl file is written while a site is being crawled nor once the
\* crawl has failed; a crawl file is written only when every configured
\* competitor has been crawled, and holds them all.
C20_NoPartialSnapshot ==
    /\ rpc \in {"idle", "crawl", "crawled", "failed"} => crawl_files = <<>>
    /\ crawl_files # <<>> =>
            /\ rpc = "saved"
            /\ pc = "idle"
            /\ crawl_complete(idx, competitors)
            /\ \A k \in 1..Len(crawl_files) : DOMAIN crawl_files[k] = Names

\* The run has failed during the crawl of the second competitor, a page of
\* it collected and the first competitor's entry complete with pages.
C20_Witness ==
    /\ rpc = "failed"
    /\ idx = 2
    /\ pages # <<>>
    /\ DOMAIN results = {"BETER"}
    /\ results["BETER"].pages # <<>>
    /\ crawl_files = <<>>

----------------------------------------------------------------------------
(* Claims about the depth bound of crawl_site *)

\* C23: for every max_depth argument of at least 1, every URL crawl_site
\* fetches is at depth at most max_depth (the start URL at depth 0), and every
\* enqueued link comes from a page fetched at a depth below max_depth.
C23_DepthBound ==
    (pc # "idle" /\ depth_arg # None /\ depth_arg.value >= 1) =>
        /\ \A i \in FetchIdx : fetchLog[i].depth <= depth_arg.value
        /\ \A e \in enqLog : \E i \in FetchIdx :
                /\ fetchLog[i].ok
                /\ fetchLog[i].depth = e.depth - 1
                /\ fetchLog[i].depth < depth_arg.value

\* A crawl called with max_depth = 1 has returned having fetched a page at
\* depth 1 that linked back to the start URL.
C23_Witness ==
    /\ pc = "done"
    /\ depth_arg = Arg(1)
    /\ \E i \in FetchIdx :
        /\ fetchLog[i].ok
        /\ fetchLog[i].depth = 1
        /\ fetchLog[i].cycle

\* C24 as claimed: called with max_depth = 0, crawl_site fetches at most the
\* start URL and enqueues no link.
C24_ZeroDepthHonoured ==
    (pc # "idle" /\ depth_arg = Arg(0)) =>
        /\ \A i \in FetchIdx : fetchLog[i].depth = 0
        /\ enqLog = {}

----------------------------------------------------------------------------
(* crawler.py: find_pricing_page on pages with their texts *)

\* phrase in text
Contains(text, phrase) ==
    \E i \in 1..(Len(text) - Len(phrase) + 1) :
        SubSeq(text, i, i + Len(phrase) - 1) = phrase

\* ["per month", "/mo", "pricing", "free tier", "enterprise plan"]
pricing_phrases ==
    { <<"p", "e", "r", " ", "m", "o", "n", "t", "h">>,
      <<"/", "m", "o">>,
      <<"p", "r", "i", "c", "i", "n", "g">>,
      <<"f", "r", "e", "e", " ", "t", "i", "e", "r">>,
      <<"e", "n", "t", "e", "r", "p", "r", "i", "s", "e", " ", "p", "l", "a", "n">> }

\* any(phrase in content_lower for phrase in [...])
has_pricing_phrase(text) == \E phrase \in pricing_phrases : Contains(Lower(text), phrase)

RECURSIVE first_by_url(_, _)
\* The first loop, from page i on: the first page whose URL has a keyword.
first_by_url(page_list, i) ==
    IF i > Len(page_list) THEN None
    ELSE IF has_pricing_keyword(page_list[i].url) THEN page_list[i]
    ELSE first_by_url(page_list, i + 1)

RECURSIVE first_by_text(_, _)
\* The second loop, from page i on: the first page whose text has a phrase.
first_by_text(page_list, i) ==
    IF i > Len(page_list) THEN None
    ELSE IF has_pricing_phrase(page_list[i].text_content) THEN page_list[i]
    ELSE first_by_text(page_list, i + 1)

find_pricing_page_SinglePass(page_list) ==
    LET hits == { i \in 1..Len(page_list) :
                    \/ has_pricing_keyword(page_list[i].url)
                    \/ has_pricing_phrase(page_list[i].text_content) }
    IN  IF hits = {} THEN None
        ELSE page_list[CHOOSE i \in hits : \A k \in hits : i <= k]

\* The first loop returns if it finds a page; the second runs only after the
\* first has gone through every page.
find_pricing_page(page_list) ==
    IF first_by_url(page_list, 1) # None THEN first_by_url(page_list, 1)
    ELSE first_by_text(page_list, 1)

\* The pages given to find_pricing_page: a URL without a keyword or with one
\* (in lower or in upper case), a text without a phrase or with one.
FindPageVals ==
    { Page(Url("a.com", path, FALSE, "", ""), "h1", text) :
        path \in {"", "/plans", "/Pricing"}, text \in {TextA, \* "$9 Per Month"
                         <<"$", "9", " ", "P", "e", "r", " ", "M", "o", "n", "t", "h">>} }

FindInit ==
    /\ CrawlIdle
    /\ RunIdle
    /\ IdleBut("find")
    /\ dpc = "input"
    /\ crawled \in SeqsUpTo(FindPageVals, MaxFindPages)
    /\ pricing_found = <<>>

FindPricingPage ==
    /\ dpc = "input"
    /\ pricing_found' = find_pricing_page(crawled)
    /\ dpc' = "compared"
    /\ UNCHANGED <<crawlVars, runVars, pagesVars, selfVars, textVars, pricingVars,
                   dataVars, visualVars, crawled, saveVars, shotVars, mainVars>>

SpecFind == FindInit /\ [][FindPricingPage]_vars

\* C25: find_pricing_page returns the first page in crawl order whose URL has
\* a pricing keyword; only when no URL has one, the first page whose text has
\* a pricing phrase; and None when no page passes either test.
C25_FindPricingPage ==
    dpc = "compared" =>
        LET url_hits == { i \in 1..Len(crawled) : has_pricing_keyword(crawled[i].url) }
            text_hits == { i \in 1..Len(crawled) :
                            has_pricing_phrase(crawled[i].text_content) }
        IN  /\ url_hits # {} =>
                pricing_found = crawled[CHOOSE i \in url_hits : \A k \in url_hits : i <= k]
            /\ (url_hits = {} /\ text_hits # {}) =>
                pricing_found = crawled[CHOOSE i \in text_hits : \A k \in text_hits : i <= k]
            /\ (url_hits = {} /\ text_hits = {}) => pricing_found = None

\* find_pricing_page has returned the second page, whose URL has a keyword,
\* the text of the first page having a pricing phrase and its URL no keyword.
C25_Witness ==
    /\ dpc = "compared"
    /\ Len(crawled) >= 2
    /\ has_pricing_phrase(crawled[1].text_content)
    /\ ~has_pricing_keyword(crawled[1].url)
    /\ has_pricing_keyword(crawled[2].url)
    /\ pricing_found = crawled[2]

----------------------------------------------------------------------------
(* Runs of run_full_monitor side by side: save_crawl_data, then             *)
(* get_latest_crawls and load_crawl_data.  A crawl file holds, for the      *)
(* crawl results it was written from, the run that wrote it.                *)

\* f"crawl_{timestamp}.json" for datetime.now().strftime("%Y%m%d_%H%M%S"):
\* one name a second
crawl_filename(timestamp) == [stamp |-> timestamp]

\* A file opened with "w" and not yet written.
EmptyFile == [empty |-> TRUE]

\* files.sort(reverse=True); files[:count]
get_latest_crawls(dir, count) ==
    LET files == DOMAIN dir
        sorted == CHOOSE seq \in [1..Cardinality(files) -> files] :
                    \A i, j \in 1..Cardinality(files) :
                        i < j => seq[i].stamp > seq[j].stamp
    IN  SubSeq(sorted, 1, IF count < Len(sorted) THEN count ELSE Len(sorted))

\* The runs start with DATA_DIR empty or holding the file of an earlier run.
SaveInit ==
    /\ CrawlIdle
    /\ RunIdle
    /\ dpc = "idle"
    /\ IdleBut("save")
    /\ now = 1
    /\ \E earlier \in BOOLEAN :
        /\ data_dir = IF earlier THEN WithEntry(<<>>, crawl_filename(0), [writer |-> 0])
                      ELSE <<>>
        /\ written = IF earlier THEN << [name |-> crawl_filename(0), writer |-> 0] >>
                     ELSE <<>>
    /\ run = [r \in 1..MaxRuns |-> [at |-> "crawl", crawl_file |-> None, compared |-> None]]

\* A second passes.
Tick ==
    /\ now < MaxClock
    /\ now' = now + 1
    /\ UNCHANGED <<crawlVars, runVars, dpc, pagesVars, selfVars, textVars, pricingVars,
                   dataVars, visualVars, findVars, data_dir, run, written, shotVars, mainVars>>

\* monitor.py line 29, crawler.py lines 260-298: the name is taken from the
\* clock and the file opened with "w", which creates or empties it
SaveOpen(r) ==
    /\ run[r].at = "crawl"
    /\ LET filename == crawl_filename(now)
       IN  /\ data_dir' = WithEntry(data_dir, filename, EmptyFile)
           /\ run' = [run EXCEPT ![r].at = "open", ![r].crawl_file = filename]
           /\ written' = Append(written, [name |-> filename, writer |-> r])
    /\ UNCHANGED <<crawlVars, runVars, dpc, pagesVars, selfVars, textVars, pricingVars,
                   dataVars, visualVars, findVars, now, shotVars, mainVars>>

\* crawler.py lines 299-302: json.dump, the file is closed
SaveWrite(r) ==
    /\ run[r].at = "open"
    /\ data_dir' = WithEntry(data_dir, run[r].crawl_file, [writer |-> r])
    /\ run' = [run EXCEPT ![r].at = "saved"]
    /\ UNCHANGED <<crawlVars, runVars, dpc, pagesVars, selfVars, textVars, pricingVars,
                   dataVars, visualVars, findVars, now, written, shotVars, mainVars>>

\* monitor.py lines 45-54: the two latest files are loaded and compared; a
\* file another run has opened and not yet written is no JSON, json.load
\* raises and the run ends in its except clause
LoadLatest(r) ==
    /\ run[r].at = "saved"
    /\ LET crawl_files_found == get_latest_crawls(data_dir, 2)
       IN  run' = [run EXCEPT ![r] =
                IF Len(crawl_files_found) < 2
                THEN [@ EXCEPT !.at = "first"]
                ELSE IF \E i \in 1..2 : data_dir[crawl_files_found[i]] = EmptyFile
                THEN [@ EXCEPT !.at = "failed"]
                ELSE [@ EXCEPT !.at = "compared",
                               !.compared =
                                    [old |-> [name |-> crawl_files_found[2],
                                              data |-> data_dir[crawl_files_found[2]]],
                                     new |-> [name |-> crawl_files_found[1],
                                              data |-> data_dir[crawl_files_found[1]]]]]]
    /\ UNCHANGED <<crawlVars, runVars, dpc, pagesVars, selfVars, textVars, pricingVars,
                   dataVars, visualVars, findVars, now, data_dir, written, shotVars, mainVars>>

SpecSave ==
    SaveInit /\ [][\/ Tick
                   \/ \E r \in 1..MaxRuns : SaveOpen(r)
                   \/ \E r \in 1..MaxRuns : SaveWrite(r)
                   \/ \E r \in 1..MaxRuns : LoadLatest(r)]_vars

\* C21 as claimed: any two runs write their snapshots under different file
\* names.
C21_DistinctFileNames ==
    \A r1, r2 \in DOMAIN run :
        (r1 # r2 /\ run[r1].crawl_file # None /\ run[r2].crawl_file # None)
            => run[r1].crawl_file # run[r2].crawl_file

\* The file written last before run r wrote its own.
WrittenBefore(r) ==
    LET mine == CHOOSE i \in 1..Len(written) : written[i].writer = r
    IN  IF mine = 1 THEN None ELSE written[mine - 1]

\* C26 as claimed: a run that finds an earlier snapshot compares the snapshot
\* it wrote itself, as the new side, with the most recent snapshot written
\* before it, as the old side.
C26_ComparesOwnWithPrevious ==
    \A r \in DOMAIN run :
        run[r].at = "compared" =>
            /\ run[r].compared.new = [name |-> run[r].crawl_file, data |-> [writer |-> r]]
            /\ WrittenBefore(r) # None
            /\ run[r].compared.old = [name |-> WrittenBefore(r).name,
                                      data |-> [writer |-> WrittenBefore(r).writer]]

----------------------------------------------------------------------------
(* screenshot_monitor.py: take_competitor_screenshots.  An image is written *)
(* by its two hashes, and a hash by the number n of its bits that are set,  *)
(* the first n: the Hamming distance of two hashes is their difference.     *)

\* Two of the entries of config.COMPETITORS.
COMPETITORS ==
    << Competitor("BETER", Url("a.com", "", FALSE, "", ""), None, None),
       Competitor("GRID", Url("b.com", "", FALSE, "", ""), None, None) >>

\* The pictures a homepage can show: one, and one that differs from it in 16
\* bits of the perceptual and 8 bits of the average hash.
Images == { [phash |-> 0, ahash |-> 0], [phash |-> 16, ahash |-> 8] }

\* The seeds of str hashing: Python draws one per process (PYTHONHASHSEED).
HashSeeds == {1, 2}

\* competitor_name.replace(" ", "_").lower()
safe_name(competitor_name) ==
    CASE competitor_name = "BETER" -> "beter"
      [] competitor_name = "GRID" -> "grid"
      [] OTHER -> competitor_name

\* hash(url) % 10000 in a process whose hash seed is seed: a value per URL
\* and seed
url_hash(url, seed) == [of |-> url, seed |-> seed]

\* f"{safe_name}_{url_hash}_{timestamp}.png"
get_screenshot_filename(competitor_name, url, seed, timestamp) ==
    [name |-> safe_name(competitor_name), url_hash |-> url_hash(url, seed),
     stamp |-> timestamp]

\* The file of the prefix with the greatest time stamp, None without one.
get_previous_screenshot(dir, competitor_name, url, seed) ==
    LET matching_files == { f \in DOMAIN dir :
                              /\ f.name = safe_name(competitor_name)
                              /\ f.url_hash = url_hash(url, seed) }
    IN  IF matching_files = {} THEN None
        ELSE CHOOSE f \in matching_files : \A g \in matching_files : g.stamp <= f.stamp

Distance(m, n) == IF m < n THEN n - m ELSE m - n

\* prev_screenshot and prev_screenshot != filepath
is_previous(prev_screenshot, filepath) ==
    prev_screenshot # None /\ prev_screenshot # filepath

\* Lines 150-181 for one competitor: the entry of results and what the
\* directory holds afterwards.  env.captured[name] is the image
\* take_screenshot wrote, None where it failed.
screenshot_step(competitor, dir, env) ==
    LET filepath == get_screenshot_filename(competitor.name, competitor.homepage,
                                            env.seed, env.timestamp)
        image == env.captured[competitor.name]
        after == WithEntry(dir, filepath, image)
        prev_screenshot == get_previous_screenshot(after, competitor.name,
                                                   competitor.homepage, env.seed)
    IN  IF image = None
        THEN [entry |-> [url |-> competitor.homepage,
                         error |-> "Failed to take screenshot",
                         timestamp |-> env.timestamp],
              dir |-> dir]
        ELSE [entry |-> [url |-> competitor.homepage,
                         screenshot_path |-> filepath,
                         previous_screenshot |-> prev_screenshot,
                         comparison |->
                            IF is_previous(prev_screenshot, filepath)
                            THEN compare_screenshots(env.pil_available, TRUE, TRUE,
                                    Distance(after[prev_screenshot].phash, image.phash),
                                    Distance(after[prev_screenshot].ahash, image.ahash))
                            ELSE None,
                         timestamp |-> env.timestamp],
              dir |-> after]

RECURSIVE take_competitor_screenshots(_, _, _, _, _)
\* The for loop of line 149 from competitor i on.
take_competitor_screenshots(config, i, dir, env, so_far) ==
    IF i > Len(config) THEN [results |-> so_far, dir |-> dir]
    ELSE CHOOSE outcome \in
            { take_competitor_screenshots(config, i + 1, step.dir, env,
                    WithEntry(so_far, config[i].name, step.entry)) :
              step \in { screenshot_step(config[i], dir, env) } } : TRUE

\* The directories take_competitor_screenshots is called in: of each
\* competitor no screenshot or one of an earlier run, whose process had a
\* hash seed of its own and took it at some second.
EarlierShots ==
    LET ShotsOf(competitor) ==
            {<<>>} \cup
            { WithEntry(<<>>, get_screenshot_filename(competitor.name,
                                    competitor.homepage, seed, stamp), image) :
                seed \in HashSeeds, stamp \in 1..MaxClock, image \in Images }
    IN  { [f \in DOMAIN one \cup DOMAIN two |->
                IF f \in DOMAIN one THEN one[f] ELSE two[f]] :
            one \in ShotsOf(COMPETITORS[1]), two \in ShotsOf(COMPETITORS[2]) }

\* What the run meets: the second the clock shows at line 147, the hash seed
\* of the process, whether Pillow and imagehash are installed, the image
\* take_screenshot wrote of each competitor (None: it failed).
ShotEnvs ==
    [timestamp : 1..MaxClock, seed : HashSeeds, pil_available : BOOLEAN,
     captured : [{ COMPETITORS[i].name : i \in 1..Len(COMPETITORS) } ->
                    Images \cup {None}]]

ShotInit ==
    /\ CrawlIdle
    /\ RunIdle
    /\ IdleBut("shots")
    /\ dpc = "input"
    /\ screenshots_dir \in EarlierShots
    /\ earlier_shots = screenshots_dir
    /\ visual_results = <<>>

TakeCompetitorScreenshots ==
    /\ dpc = "input"
    /\ \E env \in ShotEnvs :
        \E outcome \in { take_competitor_screenshots(COMPETITORS, 1, screenshots_dir,
                                                      env, <<>>) } :
            /\ visual_results' = outcome.results
            /\ screenshots_dir' = outcome.dir
    /\ dpc' = "compared"
    /\ UNCHANGED <<crawlVars, runVars, pagesVars, selfVars, textVars, pricingVars,
                   dataVars, visualVars, findVars, saveVars, mainVars, earlier_shots>>

SpecShots == ShotInit /\ [][TakeCompetitorScreenshots]_vars

\* The screenshots of a competitor's homepage that earlier runs left.
EarlierOf(competitor) ==
    { f \in DOMAIN earlier_shots : f.name = safe_name(competitor.name) }

\* C28 as claimed: whenever a new screenshot is captured and an earlier one
\* of the same competitor and URL exists, the result carries a comparison of
\* the earlier screenshot with the new one: not none, and the previous
\* screenshot is the earlier file, not the new one.
C28_ComparesWithEarlier ==
    dpc = "compared" =>
        \A i \in 1..Len(COMPETITORS) :
            LET entry == visual_results[COMPETITORS[i].name]
            IN  ("screenshot_path" \in DOMAIN entry /\ EarlierOf(COMPETITORS[i]) # {}) =>
                    /\ entry.comparison # None
                    /\ entry.previous_screenshot \in EarlierOf(COMPETITORS[i])
                    /\ entry.previous_screenshot # entry.screenshot_path

----------------------------------------------------------------------------
(* monitor.py: main and run_full_monitor, a whole run of the program.  The  *)
(* crawl comes as what crawl_all_competitors returned (Spec and SpecRun     *)
(* follow it step by step); the messages are followed up to the call of     *)
(* send_competitor_report or send_error_notification, which hand them to    *)
(* the webhook.                                                             *)

\* hashlib.md5(text_content.encode()).hexdigest(): a value per text
md5(text) == [md5_of |-> text]

\* The texts the homepage of the first competitor shows to a crawl: the last
\* is TextL with a tail, and longer than save_crawl_data stores.
MainTexts == { TextL, TextM, TextL \o <<" ", "n", "o", "w">> }

\* fetch_page's page_data, lines 105-116
fetched_page(url, text_content) == Page(url, md5(text_content), text_content)

\* What crawl_all_competitors returns: of every competitor of COMPETITORS
\* the pages fetched, the pricing page found among them and the pages on
\* which one of the competitor's keywords was found.  Here the first
\* competitor's homepage was fetched, and no page of the second.
CrawlResults ==
    { [i \in { COMPETITORS[k].name : k \in 1..Len(COMPETITORS) } |->
            IF i = COMPETITORS[1].name
            THEN [homepage |-> COMPETITORS[1].homepage,
                  pages |-> <<fetched_page(COMPETITORS[1].homepage, text)>>,
                  pricing_page |->
                        find_pricing_page(<<fetched_page(COMPETITORS[1].homepage, text)>>),
                  keyword_alerts |-> alerts]
            ELSE [homepage |-> COMPETITORS[2].homepage,
                  pages |-> <<>>,
                  pricing_page |-> None,
                  keyword_alerts |-> <<>>]] :
        text \in MainTexts,
        alerts \in { <<>>, <<[url |-> COMPETITORS[1].homepage]>> } }

\* save_data of save_crawl_data with the texts, lines 269-296: the text of a
\* page is cut to its first StoredChars characters, that of the pricing page
\* is stored whole.
save_crawl_data(crawled_results) ==
    [n \in DOMAIN crawled_results |->
        [homepage |-> crawled_results[n].homepage,
         pages |-> [i \in 1..Len(crawled_results[n].pages) |->
                        Page(crawled_results[n].pages[i].url,
                             crawled_results[n].pages[i].content_hash,
                             \* text_content[:5000]
                             SubSeq(crawled_results[n].pages[i].text_content, 1,
                                    IF StoredChars < Len(crawled_results[n].pages[i].text_content)
                                    THEN StoredChars
                                    ELSE Len(crawled_results[n].pages[i].text_content)))],
         pricing_page |-> crawled_results[n].pricing_page]]

\* scan_all_media's results: of one source the articles that mention a
\* competitor.
MediaScans ==
    { [s \in {"ESI"} |-> [articles_with_mentions |-> articles]] :
        articles \in { <<>>, <<[url |-> "a1"]>> } }

\* media_scanner.get_new_mentions
get_new_mentions(current, previous) ==
    LET prev_urls == UNION { { previous[s].articles_with_mentions[i].url :
                                 i \in 1..Len(previous[s].articles_with_mentions) } :
                             s \in DOMAIN previous }
        new_articles(s) == SelectSeq(current[s].articles_with_mentions,
                                     LAMBDA article : article.url \notin prev_urls)
    IN  [s \in { t \in DOMAIN current : new_articles(t) # <<>> } |->
            [articles |-> new_articles(s)]]

\* monitor.py lines 64-89 and 181-200: the new mentions against the scan
\* before this one, every mention on the first scan.
media_mentions_of(media_results, previous) ==
    IF previous # None
    THEN get_new_mentions(media_results, previous)
    ELSE [s \in { t \in DOMAIN media_results :
                    media_results[t].articles_with_mentions # <<>> } |->
            [articles |-> media_results[s].articles_with_mentions]]

RECURSIVE any_similar_false(_, _, _)
\* any(r.get("comparison", {}).get("similar") is False for r in
\* visual_results.values()) from entry i of the dict on, the entries in the
\* order of COMPETITORS, in which take_competitor_screenshots inserted them:
\* "true", "false", or "raise" where comparison is None, which has no get.
any_similar_false(entries, config, i) ==
    IF i > Len(config) THEN "false"
    ELSE IF config[i].name \notin DOMAIN entries
         THEN any_similar_false(entries, config, i + 1)
    ELSE IF "comparison" \notin DOMAIN entries[config[i].name]
         THEN any_similar_false(entries, config, i + 1)
    ELSE IF entries[config[i].name].comparison = None THEN "raise"
    ELSE IF /\ "error" \notin DOMAIN entries[config[i].name].comparison
            /\ entries[config[i].name].comparison.similar = FALSE
         THEN "true"
    ELSE any_similar_false(entries, config, i + 1)

\* Line 112: bool(changes) or bool(keyword_alerts) or bool(media_mentions) or
\* any(...), the any evaluated only where the three before it are empty.
has_changes(locals, entries) ==
    IF locals.changes # <<>> \/ locals.keyword_alerts # <<>> \/ locals.media_mentions # <<>>
    THEN "true"
    ELSE any_similar_false(entries, COMPETITORS, 1)

should_send_OnChangesOnly(outcome, crawl_file_list) == outcome = "true"

\* Line 116: has_changes or len(crawl_files) < 2
should_send(outcome, crawl_file_list) == outcome = "true" \/ Len(crawl_file_list) < 2

\* Neither --crawl-only nor --media-only: main calls run_full_monitor.
FullRun == ~args.crawl_only /\ ~args.media_only

\* The program is started at second 1.  DATA_DIR is empty, or holds a crawl
\* file of second 0: one an earlier run saved, or one a run opened and did
\* not write.  It holds no media scan, or one with an article.
\* SCREENSHOTS_DIR is empty, or holds one screenshot of the first
\* competitor's homepage that a process of the same hash seed took.
MainInit ==
    /\ CrawlIdle
    /\ RunIdle
    /\ dpc = "idle"
    /\ IdleBut("main")
    /\ args \in [no_screenshots : BOOLEAN, no_media : BOOLEAN, dry_run : BOOLEAN,
                 crawl_only : BOOLEAN, media_only : BOOLEAN]
    /\ mpc = "start"
    /\ crawl_results = <<>>
    /\ earlier_results \in {None, EmptyFile} \cup { r \in CrawlResults :
                                \A n \in DOMAIN r : r[n].keyword_alerts = <<>> }
    /\ previous_scan \in {None} \cup { scan \in MediaScans :
                                scan["ESI"].articles_with_mentions # <<>> }
    /\ found = [keyword_alerts |-> <<>>, crawl_files |-> <<>>, changes |-> <<>>,
                media_mentions |-> <<>>]
    /\ slack = <<>>
    /\ exit_status = 0
    /\ now = 1
    /\ data_dir = IF earlier_results = None THEN <<>>
                  ELSE IF earlier_results = EmptyFile
                       THEN WithEntry(<<>>, crawl_filename(0), EmptyFile)
                  ELSE WithEntry(<<>>, crawl_filename(0), save_crawl_data(earlier_results))
    /\ run = <<>>
    /\ written = <<>>
    /\ screenshots_dir \in
            { dir \in EarlierShots :
                \A f \in DOMAIN dir : /\ f.name = safe_name(COMPETITORS[1].name)
                                      /\ f.url_hash.seed = 1
                                      /\ dir[f].phash = 0 }
    /\ earlier_shots = screenshots_dir
    /\ visual_results = <<>>

\* Lines 126-133, the except clause of run_full_monitor: the error is sent to
\* Slack unless the run is dry, and the process exits with status 1.
Raised ==
    /\ slack' = IF ~args.dry_run THEN Append(slack, [kind |-> "error"]) ELSE slack
    /\ exit_status' = 1
    /\ mpc' = "exit1"

\* Lines 171-174, --crawl-only: crawl and save.
CrawlOnly ==
    /\ mpc = "start"
    /\ args.crawl_only
    /\ \E crawled_results \in CrawlResults :
        /\ crawl_results' = crawled_results
        /\ data_dir' = WithEntry(data_dir, crawl_filename(now),
                                 save_crawl_data(crawled_results))
    /\ mpc' = "done"
    /\ UNCHANGED <<crawlVars, runVars, dpc, pagesVars, selfVars, textVars, pricingVars,
                   dataVars, visualVars, findVars, now, run, written, shotVars,
                   args, earlier_results, previous_scan, found, slack, exit_status>>

\* Lines 175-209, --media-only: the scan, and the report to Slack where it
\* found a mention.
MediaOnly ==
    /\ mpc = "start"
    /\ ~args.crawl_only
    /\ args.media_only
    /\ \E media_results \in MediaScans :
        \E media_mentions \in { media_mentions_of(media_results, previous_scan) } :
            /\ found' = [found EXCEPT !.media_mentions = media_mentions]
            /\ slack' = IF media_mentions # <<>>
                        THEN Append(slack, [kind |-> "report"])
                        ELSE slack
    /\ mpc' = "done"
    /\ UNCHANGED <<crawlVars, runVars, dpc, pagesVars, selfVars, textVars, pricingVars,
                   dataVars, visualVars, findVars, saveVars, shotVars,
                   args, crawl_results, earlier_results, previous_scan, exit_status>>

\* run_full_monitor lines 26-41: crawl, save, collect the keyword alerts.
Step1 ==
    /\ mpc = "start"
    /\ FullRun
    /\ \E crawled_results \in CrawlResults :
        /\ crawl_results' = crawled_results
        /\ data_dir' = WithEntry(data_dir, crawl_filename(now),
                                 save_crawl_data(crawled_results))
        /\ found' = [found EXCEPT !.keyword_alerts =
                        [n \in { m \in DOMAIN crawled_results :
                                    crawled_results[m].keyword_alerts # <<>> } |->
                            [alerts |-> crawled_results[n].keyword_alerts]]]
    /\ mpc' = "step2"
    /\ UNCHANGED <<crawlVars, runVars, dpc, pagesVars, selfVars, textVars, pricingVars,
                   dataVars, visualVars, findVars, now, run, written, shotVars,
                   args, earlier_results, previous_scan, slack, exit_status>>

\* Lines 44-54: the two newest crawl files are loaded and compared.  json.load
\* raises on a file that holds nothing.
Step2 ==
    /\ mpc = "step2"
    /\ \E file_list \in { get_latest_crawls(data_dir, 2) } :
        IF Len(file_list) >= 2 /\ EmptyFile \in { data_dir[file_list[2]], data_dir[file_list[1]] }
        THEN /\ Raised
             /\ UNCHANGED found
        ELSE /\ found' = [found EXCEPT
                            !.crawl_files = file_list,
                            !.changes = IF Len(file_list) >= 2
                                        THEN detect_all_changes(data_dir[file_list[2]],
                                                                data_dir[file_list[1]])
                                        ELSE <<>>]
             /\ mpc' = "step3"
             /\ UNCHANGED <<slack, exit_status>>
    /\ UNCHANGED <<crawlVars, runVars, dpc, pagesVars, selfVars, textVars, pricingVars,
                   dataVars, visualVars, findVars, saveVars, shotVars,
                   args, crawl_results, earlier_results, previous_scan>>

\* Lines 57-91: the media scan, unless --no-media.
Step3 ==
    /\ mpc = "step3"
    /\ IF args.no_media
       THEN UNCHANGED found
       ELSE \E media_results \in MediaScans :
                found' = [found EXCEPT !.media_mentions =
                                media_mentions_of(media_results, previous_scan)]
    /\ mpc' = "step4"
    /\ UNCHANGED <<crawlVars, runVars, dpc, pagesVars, selfVars, textVars, pricingVars,
                   dataVars, visualVars, findVars, saveVars, shotVars,
                   args, crawl_results, earlier_results, previous_scan, slack, exit_status>>

\* Lines 94-100: the screenshots, unless --no-screenshots.  The run takes
\* them at second 2 under hash seed 1.
Step4 ==
    /\ mpc = "step4"
    /\ IF args.no_screenshots
       THEN UNCHANGED <<screenshots_dir, visual_results>>
       ELSE \E env \in { e \in ShotEnvs : e.timestamp = 2 /\ e.seed = 1 } :
              \E outcome \in { take_competitor_screenshots(COMPETITORS, 1,
                                                           screenshots_dir, env, <<>>) } :
                /\ visual_results' = outcome.results
                /\ screenshots_dir' = outcome.dir
    /\ mpc' = "step5"
    /\ UNCHANGED <<crawlVars, runVars, dpc, pagesVars, selfVars, textVars, pricingVars,
                   dataVars, visualVars, findVars, saveVars, earlier_shots,
                   args, crawl_results, earlier_results, previous_scan, found, slack,
                   exit_status>>

\* Lines 103-124: nothing is sent on a dry run; otherwise the report is sent
\* where something changed or no earlier crawl file was there.
Step5 ==
    /\ mpc = "step5"
    /\ IF args.dry_run
       THEN /\ mpc' = "done"
            /\ UNCHANGED <<slack, exit_status>>
       ELSE \E outcome \in { has_changes(found, visual_results) } :
              IF outcome = "raise"
              THEN Raised
              ELSE /\ slack' = IF should_send(outcome, found.crawl_files)
                               THEN Append(slack, [kind |-> "report"])
                               ELSE slack
                   /\ mpc' = "done"
                   /\ UNCHANGED exit_status
    /\ UNCHANGED <<crawlVars, runVars, dpc, pagesVars, selfVars, textVars, pricingVars,
                   dataVars, visualVars, findVars, saveVars, shotVars,
                   args, crawl_results, earlier_results, previous_scan, found>>

SpecMain ==
    MainInit /\ [][CrawlOnly \/ MediaOnly \/ Step1 \/ Step2 \/ Step3 \/ Step4 \/ Step5]_vars

----------------------------------------------------------------------------
(* Claims about a whole run *)

\* C22 as claimed: started with --dry-run, the program hands no message to
\* Slack on any path, whichever other flags are given: no competitor report,
\* no media report, no error notification.
C22_DryRunSendsNothing ==
    (mpc # "idle" /\ args.dry_run) => slack = <<>>

\* The entries of visual_results of a screenshot captured without comparison.
Uncompared ==
    { n \in DOMAIN visual_results :
        /\ "screenshot_path" \in DOMAIN visual_results[n]
        /\ visual_results[n].comparison = None }

\* The entries of visual_results whose comparison says similar = False.
Dissimilar ==
    { n \in DOMAIN visual_results :
        /\ "comparison" \in DOMAIN visual_results[n]
        /\ visual_results[n].comparison # None
        /\ "error" \notin DOMAIN visual_results[n].comparison
        /\ visual_results[n].comparison.similar = FALSE }

\* C29 as claimed: a full run, not dry and with screenshots, that found no
\* content change, no keyword alert and no media mention and holds a captured
\* screenshot without comparison ends normally: it returns, the exit status
\* is not 1 and no error notification is sent.
C29_NoComparisonEndsNormally ==
    ( /\ mpc \in {"done", "exit1"}
      /\ FullRun /\ ~args.dry_run /\ ~args.no_screenshots
      /\ found.changes = <<>> /\ found.keyword_alerts = <<>>
      /\ found.media_mentions = <<>>
      /\ Uncompared # {} )
        => /\ mpc = "done"
           /\ exit_status = 0
           /\ \A i \in 1..Len(slack) : slack[i].kind # "error"

ChangePercents(page_changes) ==
    { [url |-> page_changes[i].url, change_percent |-> page_changes[i].change_percent] :
        i \in { k \in 1..Len(page_changes) : page_changes[k].type = "content_changed" } }

\* The page changes step 2 found of a competitor.
PageChangesOf(n) ==
    IF n \in DOMAIN found.changes THEN found.changes[n].page_changes ELSE <<>>

\* C27 as claimed: in a full run that compared two crawl files, the
\* changePercent of every page of both is the one computed from the complete
\* texts of the two versions as they were fetched and hashed.
C27_ChangePercentOfCompleteTexts ==
    (mpc # "idle" /\ FullRun /\ Len(found.crawl_files) = 2) =>
        \A n \in DOMAIN crawl_results :
            ChangePercents(PageChangesOf(n))
                = ChangePercents(compare_pages(earlier_results[n].pages,
                                               crawl_results[n].pages))

====
